---- MODULE Spec2Model ----
(***************************************************************************)
(* Document processing and caching of the RAG harness: create_hash,        *)
(* save_to_cache / load_from_cache (common/utils.py) and the               *)
(* DocumentProcessor.process_documents of the iterations (lexical iter_1,  *)
(* minimal iter_2, unicode-moderate iter_3).                               *)
(*                                                                         *)
(* Text is a sequence of one-character strings.  A Python value is a       *)
(* tagged record; a dict keeps its insertion order as a sequence of        *)
(* <<key, value>> pairs.                                                   *)
(***************************************************************************)
EXTENDS Integers, Sequences, FiniteSets, TLC

\* ------------------------------------------------------------------ bounds

\* The chunk sizes the runs of the model use are 1..MaxChunkSize.
MaxChunkSize == 2

\* ---------------------------------------------------------- configuration

CACHE_ENABLED == TRUE
CACHE_VERSION == <<"v", "1">>

\* ------------------------------------------------------------- text basics

Range(s) == {s[i] : i \in DOMAIN s}

LowerLetters == {"a", "b", "c", "d", "e", "f", "g", "h", "i", "j", "k", "l", "m",
                 "n", "o", "p", "q", "r", "s", "t", "u", "v", "w", "x", "y", "z"}
Digits == {"0", "1", "2", "3", "4", "5", "6", "7", "8", "9"}
\* What the regex class \s and str.strip() take for whitespace.
Whitespace == {" ", "\n", "\t", "U+00A0"}

\* str.lower(), one character.
LowerChar(c) ==
    CASE c = "A" -> "a"
      [] c = "B" -> "b"
      [] c = "C" -> "c"
      [] c = "H" -> "h"
      [] c = "T" -> "t"
      [] c = "W" -> "w"
      [] OTHER -> c

lower(text) == [i \in DOMAIN text |-> LowerChar(text[i])]

\* re.sub(r"[^...]", "", text): keep the characters of the allow-list.
RECURSIVE KeepOnly(_, _)
KeepOnly(allowed, text) ==
    IF text = <<>> THEN <<>>
    ELSE (IF Head(text) \in allowed THEN <<Head(text)>> ELSE <<>>)
         \o KeepOnly(allowed, Tail(text))

RECURSIVE lstrip(_)
lstrip(text) ==
    IF text # <<>> /\ Head(text) \in Whitespace THEN lstrip(Tail(text)) ELSE text

RECURSIVE rstrip(_)
rstrip(text) ==
    IF text # <<>> /\ text[Len(text)] \in Whitespace
    THEN rstrip(SubSeq(text, 1, Len(text) - 1))
    ELSE text

\* A strip that leaves the right end alone.
strip_LeftOnly(text) == lstrip(text)

strip(text) == rstrip(lstrip(text))

\* re.sub(r"\s+", " ", text): every maximal run of whitespace becomes one space.
RECURSIVE CollapseWhitespace(_)
CollapseWhitespace(text) ==
    IF text = <<>> THEN <<>>
    ELSE IF Head(text) \in Whitespace
         THEN <<" ">> \o CollapseWhitespace(lstrip(text))
         ELSE <<Head(text)>> \o CollapseWhitespace(Tail(text))

\* str.split() on whitespace.
RECURSIVE SplitWords(_)
SplitWords(text) ==
    LET t == lstrip(text)
        WordEnd[i \in 0..Len(t)] ==
            IF i = Len(t) \/ t[i + 1] \in Whitespace THEN i ELSE WordEnd[i + 1]
    IN  IF t = <<>> THEN <<>>
        ELSE <<SubSeq(t, 1, WordEnd[0])>> \o SplitWords(SubSeq(t, WordEnd[0] + 1, Len(t)))

\* " ".join(words)
RECURSIVE JoinWords(_)
JoinWords(words) ==
    IF words = <<>> THEN <<>>
    ELSE IF Len(words) = 1 THEN words[1]
    ELSE words[1] \o <<" ">> \o JoinWords(Tail(words))

\* str(int) for a natural number.
DigitOf(n) ==
    CASE n = 0 -> "0" [] n = 1 -> "1" [] n = 2 -> "2" [] n = 3 -> "3" [] n = 4 -> "4"
      [] n = 5 -> "5" [] n = 6 -> "6" [] n = 7 -> "7" [] n = 8 -> "8" [] n = 9 -> "9"

RECURSIVE IntToStr(_)
IntToStr(n) ==
    IF n < 10 THEN <<DigitOf(n)>> ELSE IntToStr(n \div 10) \o <<DigitOf(n % 10)>>

\* ------------------------------------------------------------ the cleaners

\* iter_2: lowercase, drop what is outside [a-z0-9\s.,?!-], collapse whitespace.
MinimalAllowed == LowerLetters \cup Digits \cup Whitespace \cup {".", ",", "?", "!", "-"}

\* The minimal cleaner with the strip moved in front of the character filter.
clean_text_minimal_StripFirst(text) ==
    CollapseWhitespace(KeepOnly(MinimalAllowed, strip(lower(text))))

clean_text_minimal(text) ==
    strip(CollapseWhitespace(KeepOnly(MinimalAllowed, lower(text))))

\* unicodedata.normalize("NFKC", text), one character: the compatibility
\* characters of the alphabet and what they decompose to.
NFKC_Char(c) ==
    CASE c = "U+00A0" -> " "      \* no-break space
      [] c = "U+FF21" -> "A"      \* fullwidth A
      [] OTHER -> c

NFKC(text) == [i \in DOMAIN text |-> NFKC_Char(text[i])]

\* The chain of str.replace calls on typographic characters.
TypographicChar(c) ==
    CASE c = "U+2019" -> "'"
      [] c = "U+201C" -> "\""
      [] c = "U+201D" -> "\""
      [] c = "U+2013" -> "-"
      [] c = "U+00A0" -> " "
      [] OTHER -> c

ReplaceTypographic(text) == [i \in DOMAIN text |-> TypographicChar(text[i])]

ModerateAllowed ==
    LowerLetters \cup Digits \cup Whitespace
    \cup {".", ",", "?", "!", ":", "%", "U+20AC", "U+00A3", "$", "U+00B1", "=", "(", ")", "/", "-"}

\* re.sub(r"\n\s*\n(\s*\n)+", "\n\n", text).  It runs on text whose whitespace
\* runs were already collapsed to single spaces, so no newline is left to match.
CollapseBlankLines(text) ==
    IF "\n" \notin Range(text) THEN text ELSE CollapseWhitespace(text)

\* iter_3: the lowercased copy is computed and then overwritten: the character
\* filter reads `text`, not `cleaned`.
clean_text_moderate(raw) ==
    LET text == ReplaceTypographic(NFKC(raw))
        lowered == lower(text)
        cleaned == KeepOnly(ModerateAllowed, text)
    IN  CollapseBlankLines(strip(CollapseWhitespace(cleaned)))

\* iter_1: the English stop words that can occur over the alphabet.
STOP_WORDS == {<<"a">>, <<"i">>, <<"b", "e">>, <<"c", "a", "n">>}

\* WordNetLemmatizer.lemmatize(word): the noun lemma when WordNet knows the
\* word, the word itself otherwise.
lemmatize(word) ==
    CASE word = <<"c", "a", "b", "s">> -> <<"c", "a", "b">>
      [] OTHER -> word

RECURSIVE ProcessTokens(_)
ProcessTokens(tokens) ==
    IF tokens = <<>> THEN <<>>
    ELSE (IF Head(tokens) \notin STOP_WORDS /\ Len(Head(tokens)) > 1
          THEN <<lemmatize(Head(tokens))>> ELSE <<>>)
         \o ProcessTokens(Tail(tokens))

\* iter_1 clean_text.  nltk is the state of the lexical resources:
\* "ok", "init_failed" (lemmatizer None, stop words empty) or "tokenize_raises".
clean_text(nltk, text) ==
    LET cleaned == strip(CollapseWhitespace(
                       KeepOnly(LowerLetters \cup Digits \cup Whitespace, lower(text))))
    IN  IF nltk = "init_failed" THEN cleaned
        ELSE IF nltk = "tokenize_raises" THEN strip(CollapseWhitespace(lower(text)))
        ELSE JoinWords(ProcessTokens(SplitWords(cleaned)))

\* ------------------------------------------------------------ Python values

PStr(s) == [t |-> "str", s |-> s]
PInt(n) == [t |-> "int", n |-> n]
PNone == [t |-> "none"]
\* An object json cannot serialise (a datetime); repr is its str().
PObj(r) == [t |-> "obj", repr |-> r]
PEnum(v) == [t |-> "enum", value |-> v]
PList(items) == [t |-> "list", items |-> items]
PDict(pairs) == [t |-> "dict", pairs |-> pairs]

\* str(obj) of a value that is neither list, dict nor Enum.
PyStr(v) ==
    CASE v.t = "str" -> v.s
      [] v.t = "int" -> IntToStr(v.n)
      [] v.t = "none" -> <<"N", "o", "n", "e">>
      [] v.t = "obj" -> v.repr

\* bool(value)
Truthy(v) ==
    CASE v.t = "str" -> v.s # <<>>
      [] v.t = "int" -> v.n # 0
      [] v.t = "none" -> FALSE
      [] v.t = "list" -> v.items # <<>>
      [] v.t = "dict" -> v.pairs # <<>>
      [] OTHER -> TRUE

HasKey(pairs, k) == \E i \in DOMAIN pairs : pairs[i][1] = k

Lookup(pairs, k) == pairs[CHOOSE i \in DOMAIN pairs : pairs[i][1] = k][2]

\* dict[k] = v: an existing key keeps its place, a new key goes last.
DictSet(pairs, k, v) ==
    IF HasKey(pairs, k)
    THEN [i \in DOMAIN pairs |-> IF pairs[i][1] = k THEN <<k, v>> ELSE pairs[i]]
    ELSE Append(pairs, <<k, v>>)

\* dict.update(other)
RECURSIVE DictUpdate(_, _)
DictUpdate(pairs, other) ==
    IF other = <<>> THEN pairs
    ELSE DictUpdate(DictSet(pairs, Head(other)[1], Head(other)[2]), Tail(other))

\* Python's == on two values: dicts compare as mappings, whatever the order
\* their keys were inserted in.
RECURSIVE PyEq(_, _)
PyEq(a, b) ==
    IF a.t # b.t THEN FALSE
    ELSE CASE a.t = "list" ->
                /\ Len(a.items) = Len(b.items)
                /\ \A i \in DOMAIN a.items : PyEq(a.items[i], b.items[i])
           [] a.t = "dict" ->
                /\ Len(a.pairs) = Len(b.pairs)
                /\ \A i \in DOMAIN a.pairs :
                      /\ HasKey(b.pairs, a.pairs[i][1])
                      /\ PyEq(a.pairs[i][2], Lookup(b.pairs, a.pairs[i][1]))
           [] OTHER -> a = b

\* -------------------------------------------------------------- create_hash

\* The keys of the model in the order Python sorts them (by code point).
KeyOrder ==
    <<"chunk_count", "chunk_index", "content", "filename", "id", "k1", "k2", "metadata",
      "modified", "path", "size", "source">>

KeyRank(k) == CHOOSE i \in DOMAIN KeyOrder : KeyOrder[i] = k

RECURSIVE InsertSorted(_, _)
InsertSorted(pair, sorted) ==
    IF sorted = <<>> THEN <<pair>>
    ELSE IF KeyRank(pair[1]) <= KeyRank(Head(sorted)[1])
         THEN <<pair>> \o sorted
         ELSE <<Head(sorted)>> \o InsertSorted(pair, Tail(sorted))

\* A sort that leaves the keys as they were inserted.
SortByKey_AsInserted(pairs) == pairs

RECURSIVE SortByKey(_)
SortByKey(pairs) ==
    IF pairs = <<>> THEN <<>> ELSE InsertSorted(Head(pairs), SortByKey(Tail(pairs)))

\* The inner serialize(obj) of create_hash: an Enum gives its value, a list or
\* dict is rebuilt element by element, anything else gives str(obj).
RECURSIVE serialize(_)
serialize(obj) ==
    CASE obj.t = "enum" -> PStr(obj.value)
      [] obj.t = "list" -> PList([i \in DOMAIN obj.items |-> serialize(obj.items[i])])
      [] obj.t = "dict" ->
            PDict([i \in DOMAIN obj.pairs |->
                      <<obj.pairs[i][1], serialize(obj.pairs[i][2])>>])
      [] OTHER -> PStr(PyStr(obj))

\* Whether json can encode the value: an arbitrary object or an Enum member
\* makes json.dump raise TypeError.
RECURSIVE JsonSerialisable(_)
JsonSerialisable(v) ==
    CASE v.t \in {"str", "int", "none"} -> TRUE
      [] v.t = "list" -> \A i \in DOMAIN v.items : JsonSerialisable(v.items[i])
      [] v.t = "dict" -> \A i \in DOMAIN v.pairs : JsonSerialisable(v.pairs[i][2])
      [] OTHER -> FALSE

\* json.dumps(value, sort_keys = sortKeys): the JSON document, an object's
\* members in the order they are written.
RECURSIVE json_dumps(_, _)
json_dumps(v, sortKeys) ==
    CASE v.t = "str" -> [j |-> "string", s |-> v.s]
      [] v.t = "int" -> [j |-> "number", n |-> v.n]
      [] v.t = "none" -> [j |-> "null"]
      [] v.t = "list" ->
            [j |-> "array", items |-> [i \in DOMAIN v.items |-> json_dumps(v.items[i], sortKeys)]]
      [] v.t = "dict" ->
            LET ps == IF sortKeys THEN SortByKey(v.pairs) ELSE v.pairs
            IN  [j |-> "object",
                 members |-> [i \in DOMAIN ps |-> <<ps[i][1], json_dumps(ps[i][2], sortKeys)>>]]

\* json.load of a JSON document.
RECURSIVE json_load(_)
json_load(d) ==
    CASE d.j = "string" -> PStr(d.s)
      [] d.j = "number" -> PInt(d.n)
      [] d.j = "null" -> PNone
      [] d.j = "array" -> PList([i \in DOMAIN d.items |-> json_load(d.items[i])])
      [] d.j = "object" ->
            PDict([i \in DOMAIN d.members |-> <<d.members[i][1], json_load(d.members[i][2])>>])

\* hashlib.md5(text).hexdigest(): equal texts give equal digests.
md5_hexdigest(text) == [md5 |-> text]

\* create_hash with json.dumps left at its default sort_keys = False.
create_hash_unsorted(data) ==
    IF data.t \in {"list", "dict"}
    THEN md5_hexdigest(json_dumps(serialize(data), FALSE))
    ELSE md5_hexdigest([j |-> "raw", s |-> PyStr(data)])

create_hash(data) ==
    IF data.t \in {"list", "dict"}
    THEN md5_hexdigest(json_dumps(serialize(data), TRUE))
    ELSE md5_hexdigest([j |-> "raw", s |-> PyStr(data)])

\* ---------------------------------------------------------------- the cache

\* A file of the cache directory: a JSON document, or text json.load rejects
\* (what a write that failed half-way leaves behind).
JsonFile(doc) == [kind |-> "json", doc |-> doc]
GarbageFile == [kind |-> "garbage"]

\* A file holding plain text, and a file that exists but cannot be opened or
\* read (a directory, a file without read permission, bytes that do not decode).
TextFile(text) == [kind |-> "text", text |-> text]
UnreadableFile == [kind |-> "unreadable"]

NoLog == <<>>
LogRec(level, event, about) == [level |-> level, event |-> event, about |-> about]

\* A save_to_cache that writes nothing and reports no failure.
save_to_cache_Nothing(files, data, filename, io) == [files |-> files, raised |-> FALSE]

\* save_to_cache(data, cache_path, filename) with the outcome io of the file
\* system: "ok", "open_fails" (makedirs or open raises, the file is untouched)
\* or "write_fails" (the write raises after open truncated the file).  A dict
\* or a list goes through json.dump, which raises, after the open, on a value
\* json cannot encode; any other value is written as str(data).
save_to_cache(files, data, filename, io) ==
    IF io = "open_fails" THEN [files |-> files, raised |-> TRUE]
    ELSE IF io = "write_fails" \/ (data.t \in {"dict", "list"} /\ ~JsonSerialisable(data))
         THEN [files |-> [f \in DOMAIN files \cup {filename} |->
                              IF f = filename THEN GarbageFile ELSE files[f]],
               raised |-> TRUE]
         ELSE [files |-> [f \in DOMAIN files \cup {filename} |->
                              IF f # filename THEN files[f]
                              ELSE IF data.t \in {"dict", "list"}
                                   THEN JsonFile(json_dumps(data, FALSE))
                                   ELSE TextFile(PyStr(data))],
               raised |-> FALSE]

\* f.read(): the text of a readable file.  A JSON document is its own text,
\* kept as one token.
FileText(file) ==
    CASE file.kind = "text" -> file.text
      [] file.kind = "json" -> <<file.doc>>
      [] file.kind = "garbage" -> <<"<garbage>">>

\* filename.endswith(".json")
EndsWithJson(filename) == Len(filename) > 0 /\ filename[Len(filename)] = ".json"

\* The texts json.load accepts among plain texts: a JSON number written with
\* digits only, without a leading zero.
IsJsonNumber(text) ==
    /\ Len(text) > 0
    /\ \A i \in DOMAIN text : text[i] \in Digits
    /\ (Len(text) > 1 => text[1] # "0")

DigitValue(c) == CHOOSE n \in 0..9 : DigitOf(n) = c

RECURSIVE StrToInt(_)
StrToInt(text) ==
    IF Len(text) = 0 THEN 0
    ELSE 10 * StrToInt(SubSeq(text, 1, Len(text) - 1)) + DigitValue(text[Len(text)])

\* Whether json.load(f) returns for the file, and what it returns.
JsonParses(file) ==
    file.kind = "json" \/ (file.kind = "text" /\ IsJsonNumber(file.text))

JsonParsed(file) ==
    IF file.kind = "json" THEN json_load(file.doc) ELSE PInt(StrToInt(file.text))

\* load_from_cache without its try/except: a failing open, read or json.load
\* reaches the caller.
load_from_cache_unguarded(files, filename) ==
    IF filename \notin DOMAIN files
    THEN [value |-> PNone, raised |-> FALSE,
          log |-> <<LogRec("info", "cache_file_not_found", filename)>>]
    ELSE LET file == files[filename]
         IN  IF file.kind = "unreadable" \/ (EndsWithJson(filename) /\ ~JsonParses(file))
             THEN [value |-> PNone, raised |-> TRUE, log |-> NoLog]
             ELSE IF EndsWithJson(filename)
                  THEN [value |-> JsonParsed(file), raised |-> FALSE, log |-> NoLog]
                  ELSE [value |-> PStr(FileText(file)), raised |-> FALSE, log |-> NoLog]

\* load_from_cache(cache_path, filename): None and an info record when the file
\* is missing; inside the try, json.load for a name ending in ".json" and
\* f.read() for any other name; the except logs an error and returns None.
\* Nothing that can raise is left outside the try.
load_from_cache(files, filename) ==
    IF filename \notin DOMAIN files
    THEN [value |-> PNone, raised |-> FALSE,
          log |-> <<LogRec("info", "cache_file_not_found", filename)>>]
    ELSE LET file == files[filename]
         IN  IF file.kind = "unreadable" \/ (EndsWithJson(filename) /\ ~JsonParses(file))
             THEN [value |-> PNone, raised |-> FALSE,
                   log |-> <<LogRec("error", "load_from_cache", filename)>>]
             ELSE IF EndsWithJson(filename)
                  THEN [value |-> JsonParsed(file), raised |-> FALSE, log |-> NoLog]
                  ELSE [value |-> PStr(FileText(file)), raised |-> FALSE, log |-> NoLog]

\* ------------------------------------------------------ documents and chunks

\* content of a Document that is not text (set to None after construction).
NoneContent == <<"<None>">>

Document(id, content, metadata, source) ==
    [id |-> id, content |-> content, metadata |-> metadata, source |-> source]

\* Document.model_dump()
DocumentDump(doc) ==
    PDict(<< <<"id", PStr(doc.id)>>,
             <<"content", IF doc.content = NoneContent THEN PNone ELSE PStr(doc.content)>>,
             <<"metadata", PDict(doc.metadata)>>,
             <<"source", doc.source>> >>)

ProcessedChunk(id, content, document_id, metadata) ==
    [id |-> id, content |-> content, document_id |-> document_id, metadata |-> metadata]

\* ProcessedChunk.model_dump()
ChunkDump(chunk) ==
    PDict(<< <<"id", PStr(chunk.id)>>,
             <<"content", PStr(chunk.content)>>,
             <<"document_id", PStr(chunk.document_id)>>,
             <<"metadata", PDict(chunk.metadata)>> >>)

\* Whether ProcessedChunk(**v) validates: v is a mapping that gives the three
\* text fields as strings and, when it gives metadata, gives a mapping.
ChunkValidates(v) ==
    /\ v.t = "dict"
    /\ \A k \in {"id", "content", "document_id"} :
          HasKey(v.pairs, k) /\ Lookup(v.pairs, k).t = "str"
    /\ HasKey(v.pairs, "metadata") => Lookup(v.pairs, "metadata").t = "dict"

\* ProcessedChunk(**v) of a value that validates.
ChunkFromValue(v) ==
    ProcessedChunk(Lookup(v.pairs, "id").s, Lookup(v.pairs, "content").s,
                   Lookup(v.pairs, "document_id").s,
                   IF HasKey(v.pairs, "metadata") THEN Lookup(v.pairs, "metadata").pairs
                   ELSE <<>>)

\* A cache check whose chunk reconstruction raises on every entry.
CachedChunks_AlwaysRaises(cached_data) == [ok |-> FALSE, chunks |-> <<>>]

\* [ProcessedChunk(**chunk) for chunk in cached_data["chunks"]] inside its try:
\* ok is FALSE when the subscript, the iteration or a constructor raises.
\* Iterating a dict gives its keys and iterating a str its characters, neither a
\* mapping, so only an empty one passes, as an empty list.
CachedChunks(cached_data) ==
    IF cached_data.t # "dict" \/ ~HasKey(cached_data.pairs, "chunks")
    THEN [ok |-> FALSE, chunks |-> <<>>]
    ELSE LET cs == Lookup(cached_data.pairs, "chunks")
         IN  CASE cs.t = "list" ->
                    IF \A i \in DOMAIN cs.items : ChunkValidates(cs.items[i])
                    THEN [ok |-> TRUE,
                          chunks |-> [i \in DOMAIN cs.items |-> ChunkFromValue(cs.items[i])]]
                    ELSE [ok |-> FALSE, chunks |-> <<>>]
               [] cs.t = "dict" -> [ok |-> cs.pairs = <<>>, chunks |-> <<>>]
               [] cs.t = "str" -> [ok |-> cs.s = <<>>, chunks |-> <<>>]
               [] OTHER -> [ok |-> FALSE, chunks |-> <<>>]

\* Python's == on two chunks, and on two lists of chunks.
ChunkEq(a, b) ==
    /\ a.id = b.id
    /\ a.content = b.content
    /\ a.document_id = b.document_id
    /\ PyEq(PDict(a.metadata), PDict(b.metadata))

ChunksEq(xs, ys) ==
    Len(xs) = Len(ys) /\ \A i \in DOMAIN xs : ChunkEq(xs[i], ys[i])

\* A chunk id that leaves the index out.
ChunkId_WithoutIndex(docId, i) == docId \o <<"_", "c", "h", "u", "n", "k", "_">>

\* f"{doc.id}_chunk_{i}"
ChunkId(docId, i) == docId \o <<"_", "c", "h", "u", "n", "k", "_">> \o IntToStr(i)

\* f"processed_{data_hash}_{chunk_size}_{chunk_overlap}_{CACHE_VERSION}.json"
\* A cache key made of the hash and the version alone.
CacheKeyFor_WithoutParams(documents, chunk_size, chunk_overlap, version) ==
    <<"processed_",
      create_hash(PList([i \in DOMAIN documents |-> DocumentDump(documents[i])])),
      "_">> \o version \o <<".json">>

\* The same f-string under a build whose config says CACHE_VERSION = version.
CacheKeyFor(documents, chunk_size, chunk_overlap, version) ==
    LET data_hash == create_hash(PList([i \in DOMAIN documents |-> DocumentDump(documents[i])]))
    IN  <<"processed_", data_hash, "_">> \o IntToStr(chunk_size) \o <<"_">>
        \o IntToStr(chunk_overlap) \o <<"_">> \o version \o <<".json">>

CacheKey(documents, chunk_size, chunk_overlap) ==
    CacheKeyFor(documents, chunk_size, chunk_overlap, CACHE_VERSION)

\* ------------------------------------------------------------- the splitter

\* RecursiveCharacterTextSplitter(chunk_size, chunk_overlap) on text without a
\* separator to prefer: fixed-width cuts, each starting chunk_size - chunk_overlap
\* after the one before; no segment for empty text.
\* A splitter that never cuts: the text as one segment.
split_text_Whole(text, chunk_size, chunk_overlap) ==
    IF text = <<>> THEN <<>> ELSE <<text>>

RECURSIVE split_text(_, _, _)
split_text(text, chunk_size, chunk_overlap) ==
    IF text = <<>> THEN <<>>
    ELSE IF Len(text) <= chunk_size THEN <<text>>
    ELSE <<SubSeq(text, 1, chunk_size)>>
         \o split_text(SubSeq(text, chunk_size - chunk_overlap + 1, Len(text)),
                       chunk_size, chunk_overlap)

\* -------------------------------------------------- iter_4: dot-leader lines

REMOVE_TOC_LINES == TRUE
REFORMAT_ALLOCATION_LINES == TRUE
HANDLE_COMPLEX_DOT_LEADER_LINES == "reformat"

\* str.splitlines(): the lines of a text, without their line ends; a final
\* line end opens no further line.
RECURSIVE SplitLines(_)
SplitLines(text) ==
    IF text = <<>> THEN <<>>
    ELSE LET ends == { i \in DOMAIN text : text[i] = "\n" }
         IN  IF ends = {} THEN <<text>>
             ELSE LET e == CHOOSE i \in ends : \A k \in ends : i <= k
                  IN  <<SubSeq(text, 1, e - 1)>> \o SplitLines(SubSeq(text, e + 1, Len(text)))

\* "\n".join(lines)
RECURSIVE JoinLines(_)
JoinLines(lines) ==
    IF lines = <<>> THEN <<>>
    ELSE IF Len(lines) = 1 THEN lines[1]
    ELSE lines[1] \o <<"\n">> \o JoinLines(Tail(lines))

\* The class [\s.] of RE_DOT_LEADER.
LeaderChars == Whitespace \cup {"."}

\* line[j+1..k] matches (?:[\s.]\.){5,}: five or more pairs, each ending in a dot.
IsLeaderPairs(line, j, k) ==
    /\ (k - j) % 2 = 0
    /\ k - j >= 10
    /\ \A m \in 1..((k - j) \div 2) :
          line[j + 2 * m - 1] \in LeaderChars /\ line[j + 2 * m] = "."

\* line[j+1..k] matches [\s.]{5,}
IsLeaderRun(line, j, k) ==
    /\ k - j >= 5
    /\ \A x \in (j + 1)..k : line[x] \in LeaderChars

\* The ways ^(.*?)\s*((?:[\s.]\.){5,}|[\s.]{5,})\s*(.+)$ matches the line: the
\* label is line[1..i], \s* takes line[i+1..j], the leader group line[j+1..k]
\* by its alternative alt, and at least one character is left for (.+).
LeaderMatches(line) ==
    LET n == Len(line)
    IN  { c \in [i : 0..n, j : 0..n, alt : {1, 2}, k : 0..n] :
            /\ c.i <= c.j /\ c.j <= c.k /\ c.k < n
            /\ \A x \in (c.i + 1)..c.j : line[x] \in Whitespace
            /\ (c.alt = 1 => IsLeaderPairs(line, c.j, c.k))
            /\ (c.alt = 2 => IsLeaderRun(line, c.j, c.k)) }

\* RE_DOT_LEADER.match(line) as the regex engine finds it: the shortest label
\* (lazy), then the longest \s* (greedy), the first alternative that matches,
\* the longest leader; group(1).strip() and group(3).strip().
DotLeaderMatch(line) ==
    LET all == LeaderMatches(line)
    IN  IF all = {} THEN [matched |-> FALSE, label |-> <<>>, value_part |-> <<>>]
        ELSE LET i0 == CHOOSE i \in {c.i : c \in all} : \A c \in all : i <= c.i
                 atI == { c \in all : c.i = i0 }
                 j0 == CHOOSE j \in {c.j : c \in atI} : \A c \in atI : j >= c.j
                 atJ == { c \in atI : c.j = j0 }
                 a0 == CHOOSE a \in {c.alt : c \in atJ} : \A c \in atJ : a <= c.alt
                 atA == { c \in atJ : c.alt = a0 }
                 k0 == CHOOSE k \in {c.k : c \in atA} : \A c \in atA : k >= c.k
             IN  [matched |-> TRUE,
                  label |-> strip(SubSeq(line, 1, i0)),
                  value_part |-> strip(SubSeq(line, k0 + 1, Len(line)))]

\* The table-of-contents test answering no for every value.
IsTocSimple_Never(value_part) == FALSE

\* RE_TOC_SIMPLE.fullmatch(value_part): ^\s*\d+\s*$
IsTocSimple(value_part) ==
    LET v == strip(value_part)
    IN  v # <<>> /\ \A i \in DOMAIN v : v[i] \in Digits

DropOptional(chars, text) ==
    IF text # <<>> /\ Head(text) \in chars THEN Tail(text) ELSE text

CurrencySigns == {"$", "U+20AC", "U+00A3"}
AllocationChars == Digits \cup {",", ".", "'", " ", "-"}

\* The allocation test answering no for every value.
IsAllocationValue_Never(value_part) == FALSE

\* RE_ALLOCATION_VALUE.fullmatch(value_part):
\* ^\s*\(?[$...]?\s?[\d,.' -]+?\s?\)?%?\s*$
IsAllocationValue(value_part) ==
    \E a \in 0..Len(value_part), b \in 0..Len(value_part) :
        /\ a < b
        /\ DropOptional(Whitespace,
               DropOptional(CurrencySigns,
                   DropOptional({"("}, lstrip(SubSeq(value_part, 1, a))))) = <<>>
        /\ \A x \in (a + 1)..b : value_part[x] \in AllocationChars
        /\ lstrip(DropOptional({"%"},
               DropOptional({")"},
                   DropOptional(Whitespace,
                       SubSeq(value_part, b + 1, Len(value_part)))))) = <<>>

AllocationMaxLen == 25

\* f"{label} {cleaned_value}"
ReformattedLine(label, value_part) ==
    label \o <<" ">> \o strip(CollapseWhitespace(value_part))

\* The body of the `for line in text.splitlines()` loop: the lines, none or
\* one, appended to cleaned_lines for the line, under the policy
\* HANDLE_COMPLEX_DOT_LEADER_LINES = policy.
CleanDotLeaderLine(line, policy) ==
    LET match == DotLeaderMatch(line)
    IN  IF ~match.matched THEN <<line>>
        ELSE IF match.label = <<>> THEN <<line>>
        ELSE IF REMOVE_TOC_LINES /\ IsTocSimple(match.value_part) THEN <<>>
        ELSE IF /\ REFORMAT_ALLOCATION_LINES
                /\ IsAllocationValue(match.value_part)
                /\ Len(match.value_part) < AllocationMaxLen
             THEN <<ReformattedLine(match.label, match.value_part)>>
        ELSE IF policy = "reformat" THEN <<ReformattedLine(match.label, match.value_part)>>
        ELSE IF policy = "remove" THEN <<>>
        ELSE <<line>>

RECURSIVE Flatten(_)
Flatten(seqs) == IF seqs = <<>> THEN <<>> ELSE Head(seqs) \o Flatten(Tail(seqs))

\* clean_dot_leader_lines(text): what each input line contributed, the lines
\* emitted and the text returned.
clean_dot_leader_lines(text, policy) ==
    LET lines == SplitLines(text)
        emitted == [i \in DOMAIN lines |-> CleanDotLeaderLine(lines[i], policy)]
    IN  [emitted |-> emitted, lines |-> Flatten(emitted), text |-> JoinLines(Flatten(emitted))]

\* ------------------------------------------- iter_4: identifiers and footers

REMOVE_IDENTIFIERS_FOOTERS == TRUE

UpperSeq ==
    <<"A", "B", "C", "D", "E", "F", "G", "H", "I", "J", "K", "L", "M",
      "N", "O", "P", "Q", "R", "S", "T", "U", "V", "W", "X", "Y", "Z">>
LowerSeq ==
    <<"a", "b", "c", "d", "e", "f", "g", "h", "i", "j", "k", "l", "m",
      "n", "o", "p", "q", "r", "s", "t", "u", "v", "w", "x", "y", "z">>

\* re.IGNORECASE: a letter as its lowercase letter.
Fold(c) ==
    IF \E i \in DOMAIN UpperSeq : UpperSeq[i] = c
    THEN LowerSeq[CHOOSE i \in DOMAIN UpperSeq : UpperSeq[i] = c]
    ELSE c

\* [A-Z] and \w under re.IGNORECASE
IsLetter(c) == Fold(c) \in LowerLetters
IsWordChar(c) == IsLetter(c) \/ c \in Digits \/ c = "_"

\* The text goes on with the word, in either case.
StartsWith(text, word) ==
    /\ Len(text) >= Len(word)
    /\ \A i \in DOMAIN word : Fold(text[i]) = word[i]

Drop(text, n) == SubSeq(text, n + 1, Len(text))

\* How many characters a greedy class+ takes at the start of the text.
RECURSIVE CountLeading(_, _)
CountLeading(chars, text) ==
    IF text = <<>> \/ Head(text) \notin chars THEN 0
    ELSE 1 + CountLeading(chars, Tail(text))

\* RE_IDENTIFIER.match(line):
\* ^\s*(?:BNM\S+|ISIN\s+[A-Z0-9]+|CUSIP\s+[A-Z0-9]+)\s*$
IsIdentifier(line) ==
    LET t == strip(line)
    IN  \/ /\ StartsWith(t, <<"b", "n", "m">>)
           /\ Len(t) > 3
           /\ \A i \in 4..Len(t) : t[i] \notin Whitespace
        \/ \E w \in { <<"i", "s", "i", "n">>, <<"c", "u", "s", "i", "p">> } :
              /\ StartsWith(t, w)
              /\ LET rest == Drop(t, Len(w))
                     code == lstrip(rest)
                 IN  /\ Len(code) < Len(rest)
                     /\ code # <<>>
                     /\ \A i \in DOMAIN code : IsLetter(code[i]) \/ code[i] \in Digits

FooterWords ==
    { <<"r", "e", "p", "o", "r", "t">>,
      <<"s", "h", "a", "r", "e", "h", "o", "l", "d", "e", "r", "s">>,
      <<"i", "n", "c">>, <<"l", "l", "c">>, <<"l", "t", "d">> }

\* RE_FOOTERS[0].search(line):
\* ^\s*\d+\s+[A-Z\s]+(?:REPORT|SHAREHOLDERS|INC|LLC|LTD)
IsReportFooter(line) ==
    LET t == lstrip(line)
        d == CountLeading(Digits, t)
    IN  /\ d >= 1
        /\ Len(t) > d
        /\ t[d + 1] \in Whitespace
        /\ \E p \in (d + 3)..Len(t) :
              /\ \A x \in (d + 1)..(p - 1) : t[x] \in Whitespace \/ IsLetter(t[x])
              /\ \E w \in FooterWords : StartsWith(Drop(t, p - 1), w)

\* RE_FOOTERS[1].search(line): ^\s*page\s+\d+\s*(?:of\s+\d+)?\s*$
IsPageFooter(line) ==
    LET t == strip(line)
        afterPage == Drop(t, 4)
        gap == CountLeading(Whitespace, afterPage)
        number == Drop(afterPage, gap)
        digits == CountLeading(Digits, number)
        tail == lstrip(Drop(number, digits))
        afterOf == Drop(tail, 2)
        gap2 == CountLeading(Whitespace, afterOf)
        total == Drop(afterOf, gap2)
    IN  /\ StartsWith(t, <<"p", "a", "g", "e">>)
        /\ gap >= 1
        /\ digits >= 1
        /\ \/ tail = <<>>
           \/ /\ StartsWith(tail, <<"o", "f">>)
              /\ gap2 >= 1
              /\ total # <<>>
              /\ \A i \in DOMAIN total : total[i] \in Digits

UrlStarts ==
    { <<"w", "w", "w", ".">>, <<"h", "t", "t", "p", ":", "/", "/">>,
      <<"h", "t", "t", "p", "s", ":", "/", "/">> }
UrlEnds == { <<"c", "o", "m">>, <<"o", "r", "g">>, <<"n", "e", "t">> }

\* RE_FOOTERS[2].search(line): ^\s*(?:www\.|https?://).+\.(?:com|org|net)\b
IsUrlFooter(line) ==
    LET t == lstrip(line)
    IN  \E start \in UrlStarts :
           /\ StartsWith(t, start)
           /\ \E q \in (Len(start) + 2)..Len(t) :
                 /\ t[q] = "."
                 /\ \E e \in UrlEnds : StartsWith(Drop(t, q), e)
                 /\ (Len(t) = q + 3 \/ ~IsWordChar(t[q + 4]))

\* L\s?E\s?T\s?T\s?E\s?R\s?S at the start of the text: whether it is there and
\* what follows it.
RECURSIVE MatchSpaced(_, _, _)
MatchSpaced(text, word, first) ==
    IF word = <<>> THEN [ok |-> TRUE, rest |-> text]
    ELSE LET t == IF ~first /\ text # <<>> /\ Head(text) \in Whitespace
                  THEN Tail(text) ELSE text
         IN  IF t # <<>> /\ Fold(Head(t)) = Head(word)
             THEN MatchSpaced(Tail(t), Tail(word), FALSE)
             ELSE [ok |-> FALSE, rest |-> <<>>]

\* RE_FOOTERS[3].search(line):
\* ^\s*\d{1,2}\s+\d{2,4}\s+I\s?S\s?H\s?A\s?R\s?E\s?S\s+A\s?N\s?N\s?U\s?A\s?L
IsAnnualFooter(line) ==
    LET t == lstrip(line)
        d1 == CountLeading(Digits, t)
        r1 == Drop(t, d1)
        w1 == CountLeading(Whitespace, r1)
        r2 == Drop(r1, w1)
        d2 == CountLeading(Digits, r2)
        r3 == Drop(r2, d2)
        w2 == CountLeading(Whitespace, r3)
        ishares == MatchSpaced(Drop(r3, w2), <<"i", "s", "h", "a", "r", "e", "s">>, TRUE)
        w3 == CountLeading(Whitespace, ishares.rest)
    IN  /\ d1 \in 1..2
        /\ w1 >= 1
        /\ d2 \in 2..4
        /\ w2 >= 1
        /\ ishares.ok
        /\ w3 >= 1
        /\ MatchSpaced(Drop(ishares.rest, w3), <<"a", "n", "n", "u", "a", "l">>, TRUE).ok

\* Whether the loop of remove_specific_lines drops the line.
IsRemovedLine(line) ==
    \/ IsIdentifier(line)
    \/ IsReportFooter(line)
    \/ IsPageFooter(line)
    \/ IsUrlFooter(line)
    \/ IsAnnualFooter(line)

\* The pass dropping no line.
remove_specific_lines_Off(text) == text

\* remove_specific_lines(text)
remove_specific_lines(text) ==
    IF ~REMOVE_IDENTIFIERS_FOOTERS THEN text
    ELSE JoinLines(SelectSeq(SplitLines(text), LAMBDA line : ~IsRemovedLine(line)))

\* ------------------------------------------------------ process_documents

\* A processor: the iteration it comes from, the state of its lexical
\* resources (iter_1 only) and its splitter parameters.
Processor(iter, nltk, chunk_size, chunk_overlap) ==
    [iter |-> iter, nltk |-> nltk, chunk_size |-> chunk_size, chunk_overlap |-> chunk_overlap]

\* The cleaning call of the iteration's loop body.
CleanContent(p, text) ==
    CASE p.iter = "iter_1" -> clean_text(p.nltk, text)
      [] p.iter = "iter_2" -> clean_text_minimal(text)
      [] p.iter = "iter_3" -> clean_text_moderate(text)

\* iter_2 and iter_3 skip a segment that is empty once stripped; iter_1 does not.
FiltersEmptyChunks(p) == p.iter \in {"iter_2", "iter_3"}

\* doc.source.value if isinstance(doc.source, DocumentSource) else str(doc.source)
SourceString(source) == IF source.t = "enum" THEN source.value ELSE PyStr(source)

\* The chunk keys written into the dict of the document itself.
ChunkMetadata_InPlace(doc_metadata, i, n, source) ==
    LET updated == DictUpdate(doc_metadata,
                              << <<"chunk_index", PInt(i)>>,
                                 <<"chunk_count", PInt(n)>>,
                                 <<"source", PStr(SourceString(source))>> >>)
    IN  [chunk |-> updated, document |-> updated]

\* metadata = split_doc.metadata.copy(); metadata.update({...}): the dict the
\* chunk gets, and the dict of the document afterwards.  The update lands in
\* the copy.
ChunkMetadata(doc_metadata, i, n, source) ==
    [chunk |-> DictUpdate(doc_metadata,
                          << <<"chunk_index", PInt(i)>>,
                             <<"chunk_count", PInt(n)>>,
                             <<"source", PStr(SourceString(source))>> >>),
     document |-> doc_metadata]

\* The chunk built from segment i (0-based) of the n segments of doc.
BuildChunk(doc, segment, i, n) ==
    ProcessedChunk(ChunkId(doc.id, i), segment, doc.id,
                   ChunkMetadata(doc.metadata, i, n, doc.source).chunk)

\* The document once the chunk of its segment i is built.
DocumentAfterChunk(doc, i, n) ==
    [doc EXCEPT !.metadata = ChunkMetadata(doc.metadata, i, n, doc.source).document]

\* The `for i, split_doc in enumerate(split_docs)` loop from position i on.
RECURSIVE AssembleChunks(_, _, _, _)
AssembleChunks(p, doc, split_docs, i) ==
    IF i >= Len(split_docs) THEN [chunks |-> <<>>, log |-> NoLog, document |-> doc]
    ELSE LET segment == split_docs[i + 1]
         IN  IF FiltersEmptyChunks(p) /\ strip(segment) = <<>>
             THEN LET rest == AssembleChunks(p, doc, split_docs, i + 1)
                  IN  [chunks |-> rest.chunks,
                       log |-> <<LogRec("debug", "skip_empty_chunk", doc.id)>> \o rest.log,
                       document |-> rest.document]
             ELSE LET rest == AssembleChunks(p, DocumentAfterChunk(doc, i, Len(split_docs)),
                                             split_docs, i + 1)
                  IN  [chunks |-> <<BuildChunk(doc, segment, i, Len(split_docs))>>
                                  \o rest.chunks,
                       log |-> rest.log,
                       document |-> rest.document]

\* A call the loop body made: the pass, the text handed to it and what it
\* returned.
PassRun(pass, input, output) == [pass |-> pass, in |-> input, out |-> output]

\* iter_4: the loop body from the first `if not content_step1.strip()` on,
\* given what the two line passes returned.
ProcessDocumentCleaned(p, doc, content_step1, content_step2) ==
    LET cleaned_content == clean_text_moderate(content_step2)
        split_docs == split_text(cleaned_content, p.chunk_size, p.chunk_overlap)
        built == AssembleChunks(p, doc, split_docs, 0)
        run1 == PassRun("remove_specific_lines", doc.content, content_step1)
        run2 == PassRun("clean_dot_leader_lines", content_step1, content_step2)
        run3 == PassRun("clean_text_moderate", content_step2, cleaned_content)
        run4 == PassRun("split", cleaned_content, split_docs)
        Skipped(event, runs) ==
            [chunks |-> <<>>, log |-> <<LogRec("warning", event, doc.id)>>,
             cleaned |-> 1, split |-> 0, failed |-> FALSE, document |-> doc,
             passes |-> runs]
    IN  IF strip(content_step1) = <<>>
        THEN Skipped("empty_after_specific_lines", <<run1>>)
        ELSE IF strip(content_step2) = <<>>
        THEN Skipped("empty_after_dot_leaders", <<run1, run2>>)
        ELSE IF strip(cleaned_content) = <<>>
        THEN Skipped("empty_after_minimal_cleaning", <<run1, run2, run3>>)
        ELSE [chunks |-> built.chunks, log |-> built.log,
              cleaned |-> 1, split |-> 1, failed |-> FALSE,
              document |-> built.document,
              passes |-> <<run1, run2, run3, run4>>]

\* iter_4: one pass of the `for doc in documents` loop.  Three cleaning passes
\* in a row, each followed by `if not content.strip(): logger.warning(...);
\* continue`, then the splitter; the first pass raises on content that is not
\* text.
ProcessDocumentPatterns(p, doc) ==
    IF doc.content = NoneContent
    THEN [chunks |-> <<>>, log |-> <<LogRec("error", "process_document", doc.id)>>,
          cleaned |-> 1, split |-> 0, failed |-> TRUE, document |-> doc,
          passes |-> <<>>]
    ELSE ProcessDocumentCleaned(p, doc, remove_specific_lines(doc.content),
             clean_dot_leader_lines(remove_specific_lines(doc.content),
                                    HANDLE_COMPLEX_DOT_LEADER_LINES).text)

\* One pass of the `for doc in documents` loop: the try block and its except.
\* Cleaning raises on content that is not text.
ProcessDocument(p, doc) ==
    IF p.iter = "iter_4" THEN ProcessDocumentPatterns(p, doc)
    ELSE IF doc.content = NoneContent
    THEN [chunks |-> <<>>, log |-> <<LogRec("error", "process_document", doc.id)>>,
          cleaned |-> 1, split |-> 0, failed |-> TRUE, document |-> doc,
          passes |-> <<>>]
    ELSE LET cleaned_content == CleanContent(p, doc.content)
             split_docs == split_text(cleaned_content, p.chunk_size, p.chunk_overlap)
             built == AssembleChunks(p, doc, split_docs, 0)
             warn == IF p.iter = "iter_1" /\ p.nltk = "init_failed"
                     THEN <<LogRec("warning", "skip_nltk", doc.id)>>
                     ELSE IF p.iter = "iter_1" /\ p.nltk = "tokenize_raises"
                     THEN <<LogRec("error", "nltk_processing", doc.id)>>
                     ELSE NoLog
         IN  [chunks |-> built.chunks, log |-> warn \o built.log,
              cleaned |-> 1, split |-> 1, failed |-> FALSE, document |-> built.document,
              passes |-> <<PassRun("clean_text", doc.content, cleaned_content),
                           PassRun("split", cleaned_content, split_docs)>>]

\* What the loop has after a document: the chunks of the document appended
\* (all_chunks.extend) to those of the documents before it.  `one` is the
\* outcome of the document, `rest` that of the documents after it.
ExtendChunks(one, rest) ==
    [chunks |-> one.chunks \o rest.chunks,
     log |-> one.log \o rest.log,
     cleaned |-> one.cleaned + rest.cleaned,
     split |-> one.split + rest.split,
     failed |-> (IF one.failed THEN {1} ELSE {}) \cup {i + 1 : i \in rest.failed},
     documents |-> <<one.document>> \o rest.documents,
     passes |-> <<one.passes>> \o rest.passes]

\* The same with the chunks of the document put in front.
PrependChunks(one, rest) ==
    [ExtendChunks(one, rest) EXCEPT !.chunks = rest.chunks \o one.chunks]

\* The loop putting the chunks of each document in front of those before it.
RECURSIVE ProcessAll_Prepending(_, _)
ProcessAll_Prepending(p, documents) ==
    IF documents = <<>>
    THEN [chunks |-> <<>>, log |-> NoLog, cleaned |-> 0, split |-> 0, failed |-> {},
          documents |-> <<>>, passes |-> <<>>]
    ELSE PrependChunks(ProcessDocument(p, Head(documents)),
                       ProcessAll_Prepending(p, Tail(documents)))

\* The whole `for doc in documents` loop.
RECURSIVE ProcessAll(_, _)
ProcessAll(p, documents) ==
    IF documents = <<>>
    THEN [chunks |-> <<>>, log |-> NoLog, cleaned |-> 0, split |-> 0, failed |-> {},
          documents |-> <<>>, passes |-> <<>>]
    ELSE ExtendChunks(ProcessDocument(p, Head(documents)),
                      ProcessAll(p, Tail(documents)))

\* The cache_data dict written at the end of a computing call.
CacheData(p, documents, chunks, source_info, timestamp) ==
    PDict(<< <<"chunks", PList([i \in DOMAIN chunks |-> ChunkDump(chunks[i])])>>,
             <<"metadata",
               PDict(<< <<"timestamp", PStr(timestamp)>>,
                        <<"document_count", PInt(Len(documents))>>,
                        <<"chunk_count", PInt(Len(chunks))>>,
                        <<"chunk_size", PInt(p.chunk_size)>>,
                        <<"chunk_overlap", PInt(p.chunk_overlap)>>,
                        <<"cache_version", PStr(CACHE_VERSION)>>,
                        <<"source_info", PDict(source_info)>> >>)>> >>)

\* The call from the loop's end on: `done` is what the loop computed, checkLog
\* what the cache lookup logged.  The chunks are saved under a key computed
\* anew from the documents as the loop left them, then dumped for debugging.
ProcessedAndStored(p, done, source_info, io, files, timestamp, checked, cache_key, checkLog) ==
    LET write_key == CacheKey(done.documents, p.chunk_size, p.chunk_overlap)
        saved == save_to_cache(files,
                               CacheData(p, done.documents, done.chunks, source_info,
                                         timestamp),
                               write_key, io.cache)
        written == IF CACHE_ENABLED THEN saved ELSE [files |-> files, raised |-> FALSE]
        writeLog == IF written.raised
                    THEN <<LogRec("error", "cache_processed_chunks", write_key)>>
                    ELSE NoLog
    IN  [kind |-> IF io.debug = "ok" THEN "return" ELSE "raise",
         chunks |-> IF io.debug = "ok" THEN done.chunks ELSE <<>>,
         files |-> written.files,
         log |-> checkLog \o done.log \o writeLog,
         cache_hit |-> FALSE,
         looked_up |-> IF checked THEN {cache_key} ELSE {},
         written |-> IF CACHE_ENABLED /\ io.cache # "open_fails" THEN {write_key} ELSE {},
         write_failed |-> written.raised, computed |-> done.chunks,
         cleaned |-> done.cleaned, split |-> done.split,
         failed |-> done.failed, dumped |-> io.debug = "ok",
         documents |-> done.documents, passes |-> done.passes]

\* The call from the cache lookup on: `loaded` is what load_from_cache
\* returned for cache_key.
LookedUp(p, documents, force_reprocess, source_info, io, files, timestamp, cache_key, loaded) ==
    LET checked == CACHE_ENABLED /\ ~force_reprocess
        cached == CachedChunks(loaded.value)
        hit == checked /\ Truthy(loaded.value) /\ cached.ok
        checkLog == IF ~checked THEN NoLog
                    ELSE loaded.log \o
                         (IF Truthy(loaded.value) /\ ~cached.ok
                          THEN <<LogRec("error", "load_chunks_from_cache", cache_key)>>
                          ELSE NoLog)
    IN  IF hit
        THEN [kind |-> "return", chunks |-> cached.chunks, files |-> files,
              log |-> checkLog, cache_hit |-> TRUE, looked_up |-> {cache_key},
              written |-> {}, write_failed |-> FALSE, computed |-> <<>>,
              cleaned |-> 0, split |-> 0, failed |-> {}, dumped |-> FALSE,
              documents |-> documents, passes |-> <<>>]
        ELSE ProcessedAndStored(p, ProcessAll(p, documents), source_info, io, files,
                                timestamp, checked, cache_key, checkLog)

\* process_documents(documents, force_reprocess, source_info) of processor p on
\* the cache directory `files`; timestamp is datetime.now().isoformat() at the
\* cache write and io what the file system does to the cache write and to the
\* debug dump.  The result says how the call ended ("return" or "raise"), the
\* chunks it returned, the files it left, what it logged, the cache files it
\* looked up and opened for writing, the chunks its loop computed, how many
\* cleaning and splitting calls it made, the positions of the documents whose
\* processing raised, the documents as the call leaves them and the passes
\* the loop ran on each document.  The key is
\* computed from the documents twice, for the lookup and again for the write.
process_documents(p, documents, force_reprocess, source_info, io, files, timestamp) ==
    LookedUp(p, documents, force_reprocess, source_info, io, files, timestamp,
             CacheKey(documents, p.chunk_size, p.chunk_overlap),
             load_from_cache(files, CacheKey(documents, p.chunk_size, p.chunk_overlap)))

\* ------------------------------------------------------- inputs of the model

WEB == PEnum(<<"w", "e", "b">>)
PDF == PEnum(<<"p", "d", "f">>)
UNKNOWN == PEnum(<<"u", "n", "k", "n", "o", "w", "n">>)

DocA == Document(<<"d1">>, <<"A", "b">>,
                 << <<"k1", PStr(<<"x">>)>>, <<"k2", PInt(1)>> >>, WEB)
DocB == Document(<<"d2">>, <<"a", "b", " ", "b", "a">>, <<>>, PDF)
\* Two documents with one id.
DocC == Document(<<"d3">>, <<"b", "a">>, <<>>, PDF)
DocD == Document(<<"d3">>, <<"a", "b">>, <<>>, WEB)
\* Nothing is left of its content after cleaning.
DocE == Document(<<"d4">>, <<"#">>, <<>>, UNKNOWN)
\* Its content is not text: cleaning raises.
DocN == Document(<<"d5">>, NoneContent, <<>>, WEB)
\* Its metadata holds a datetime, which json cannot encode.
DocT == Document(<<"d6">>, <<"a", "b">>, << <<"k1", PObj(<<"2", "0", "2", "5">>)>> >>, PDF)

\* The document sets the runs of the model process.
Batches ==
    { <<>>, <<DocA, DocC>>, <<DocN, DocB, DocE>>, <<DocC, DocD>>, <<DocT>> }

\* The splitter parameters of a run: chunk_overlap below chunk_size.
ChunkParams ==
    { x \in [chunk_size : 1..MaxChunkSize, chunk_overlap : 0..(MaxChunkSize - 1)] :
          x.chunk_overlap < x.chunk_size }

Reverse(s) == [i \in DOMAIN s |-> s[Len(s) + 1 - i]]

\* The same documents with the keys of every metadata dict inserted in the
\* opposite order.
ReinsertMetadata(documents) ==
    [i \in DOMAIN documents |->
        [documents[i] EXCEPT !.metadata = Reverse(documents[i].metadata)]]

\* The processors a run can construct: an iteration's DocumentProcessor (for
\* iter_1 with its NLTK resources loaded).
Processors ==
    { Processor(k[1], k[2], x.chunk_size, x.chunk_overlap) :
          k \in { <<"iter_1", "ok">>, <<"iter_2", "unused">>, <<"iter_3", "unused">> },
          x \in ChunkParams }

\* source_info as the pipeline passes it (not at all).
SourceInfos == { PNone }

Timestamps == { <<"t", "1">> }

\* What the file system does to the cache write and to the debug dump.
IOOutcomes == [cache : {"ok", "open_fails", "write_fails"}, debug : {"ok", "fails"}]

\* What a damaged cache file can hold: text that is no JSON, an object without
\* "chunks", "chunks" that is an object instead of a list, a chunk record
\* without its fields.
DamagedFiles ==
    LET EmptyObject == [j |-> "object", members |-> <<>>]
    IN  { GarbageFile,
          JsonFile([j |-> "object", members |-> << <<"metadata", EmptyObject>> >>]),
          JsonFile([j |-> "object", members |-> << <<"chunks", EmptyObject>> >>]),
          JsonFile([j |-> "object",
                    members |-> << <<"chunks",
                                     [j |-> "array", items |-> <<EmptyObject>>]>> >>]) }

\* ------------------------------------------------------------------- state

VARIABLES
    corpus,      \* the document set of the run
    processor,   \* the DocumentProcessor the run constructed
    files,       \* the cache directory: file name -> file
    debug_file,  \* the chunk list the debug dump holds, <<>> before the first dump
    call,        \* the inputs of the last process_documents call, NoCall when the
                 \* cache directory was touched from outside since
    result       \* how that call ended: see process_documents

vars == <<corpus, processor, files, debug_file, call, result>>

NoCall == [kind |-> "none"]

Init ==
    /\ corpus \in Batches
    /\ processor \in Processors
    /\ files = <<>>
    /\ debug_file = <<>>
    /\ call = NoCall
    /\ result = NoCall

\* One call processor.process_documents(documents, force_reprocess, source_info).
ProcessDocuments(documents, force_reprocess, source_info, io, timestamp) ==
    \E r \in {process_documents(processor, documents, force_reprocess,
                                IF Truthy(source_info) THEN source_info.pairs ELSE <<>>,
                                io, files, timestamp)} :
       /\ files' = r.files
       /\ debug_file' = IF r.dumped THEN r.chunks ELSE debug_file
       /\ call' = [kind |-> "call", documents |-> documents,
                   force_reprocess |-> force_reprocess, source_info |-> source_info,
                   io |-> io]
       /\ result' = [kind |-> r.kind, chunks |-> r.chunks, log |-> r.log,
                     cache_hit |-> r.cache_hit, looked_up |-> r.looked_up,
                     written |-> r.written, write_failed |-> r.write_failed,
                     computed |-> r.computed, cleaned |-> r.cleaned,
                     split |-> r.split, failed |-> r.failed]
       /\ UNCHANGED <<corpus, processor>>

\* Something outside the program damages a file of the cache directory.
DamageCacheFile(f, damaged) ==
    /\ f \in DOMAIN files
    /\ files[f] # damaged
    /\ files' = [files EXCEPT ![f] = damaged]
    /\ call' = NoCall
    /\ result' = NoCall
    /\ UNCHANGED <<corpus, processor, debug_file>>

Next ==
    \/ \E documents \in {corpus, ReinsertMetadata(corpus)},
          force_reprocess \in BOOLEAN, source_info \in SourceInfos, io \in IOOutcomes,
          timestamp \in Timestamps :
          ProcessDocuments(documents, force_reprocess, source_info, io, timestamp)
    \/ \E f \in DOMAIN files, damaged \in DamagedFiles : DamageCacheFile(f, damaged)

Spec == Init /\ [][Next]_vars

\* -------------------------------------------------------------- properties

\* Every call the program can make next on the given documents without
\* force_reprocess, whatever the file system does to it.
SecondCalls(documents) ==
    { process_documents(processor, documents, FALSE, <<>>, io, files, timestamp) :
          io \in IOOutcomes, timestamp \in Timestamps }

\* A call on the given documents, in either insertion order of their metadata,
\* is served from the cache with the chunks the last call returned.
ServedFromCache(documents) ==
    \A docs \in {documents, ReinsertMetadata(documents)} :
        \A r \in SecondCalls(docs) :
            /\ r.kind = "return"
            /\ r.cleaned = 0
            /\ r.split = 0
            /\ ChunksEq(r.chunks, result.chunks)

\* C1 as stated: after a call that returned, a second call on the same
\* documents without force_reprocess makes no cleaning or splitting call and
\* returns the same chunk list.
C1_SecondCallAlwaysFromCache ==
    (call.kind = "call" /\ result.kind = "return") => ServedFromCache(call.documents)

\* C1: after a call that returned and left its cache entry behind (it was served
\* from the cache itself, or its cache write succeeded), with the cache
\* directory untouched since, a second call on the same documents without
\* force_reprocess makes no cleaning or splitting call and returns the chunk
\* list the first call returned.
C1_SecondCallFromCache ==
    ( /\ call.kind = "call"
      /\ result.kind = "return"
      /\ result.cache_hit \/ (result.written # {} /\ ~result.write_failed) )
    => ServedFromCache(call.documents)

\* A call was served from a cache entry and returned chunks.
C1_Witness ==
    /\ call.kind = "call"
    /\ ~call.force_reprocess
    /\ result.cache_hit
    /\ result.chunks # <<>>

\* The cache files a call named.
KeysOf(r) == r.looked_up \cup r.written

\* C2: the key a call computes is the one every processor with the same
\* chunk_size and chunk_overlap computes for documents of the same id, content,
\* metadata and source, whatever the iteration of the processor, the insertion
\* order of the metadata keys, force_reprocess and the state of the cache.
\* (Metadata keys are strings and metadata values have a str() fixed by their
\* value, as in what the ingestion adapters build.)
C2_KeyDependsOnlyOnValues ==
    call.kind = "call" =>
        \A p \in Processors, docs \in {call.documents, ReinsertMetadata(call.documents)} :
            (p.chunk_size = processor.chunk_size /\ p.chunk_overlap = processor.chunk_overlap)
            => KeysOf(result) \subseteq {CacheKey(docs, p.chunk_size, p.chunk_overlap)}

\* A call whose documents carry their metadata keys in one order was served
\* from the entry a call with the other order wrote.
C2_Witness ==
    /\ call.kind = "call"
    /\ result.cache_hit
    /\ result.chunks # <<>>
    /\ Len(call.documents[1].metadata) > 1
    /\ result.chunks[1].metadata[1][1] # call.documents[1].metadata[1][1]

\* The chunks of a list that belong to the document with the given id.
ChunksOf(chunks, docId) == SelectSeq(chunks, LAMBDA c : c.document_id = docId)

DistinctIds(documents) ==
    \A i \in DOMAIN documents, j \in DOMAIN documents :
        documents[i].id = documents[j].id => i = j

\* C4: when processing raises for some documents of a call that computes, the
\* call returns, logs an error for each of them, and returns for every other
\* document exactly the chunks built from it and for the failed ones none.
C4_PartialFailure ==
    (call.kind = "call" /\ ~result.cache_hit /\ result.failed # {}) =>
        /\ result.kind = "return"
        /\ \A i \in result.failed :
              \E j \in DOMAIN result.log :
                  result.log[j] = LogRec("error", "process_document", call.documents[i].id)
        /\ \A i \in DOMAIN call.documents :
              ChunksOf(result.chunks, call.documents[i].id) =
                  IF i \in result.failed THEN <<>>
                  ELSE ProcessDocument(processor, call.documents[i]).chunks

\* The id of a chunk is its document_id, "_chunk_" and its chunk_index.
IdFromIndex(chunk) ==
    /\ HasKey(chunk.metadata, "chunk_index")
    /\ Lookup(chunk.metadata, "chunk_index").t = "int"
    /\ chunk.id = chunk.document_id \o <<"_", "c", "h", "u", "n", "k", "_">>
                  \o IntToStr(Lookup(chunk.metadata, "chunk_index").n)

UniqueChunkIds(chunks) ==
    \A i \in DOMAIN chunks, j \in DOMAIN chunks : chunks[i].id = chunks[j].id => i = j

\* C5 as stated: every chunk a call returns has the id made of its document_id
\* and chunk_index, and no two chunks of the returned list share an id.
C5_IdsAlwaysUnique ==
    (call.kind = "call" /\ result.kind = "return") =>
        /\ \A i \in DOMAIN result.chunks : IdFromIndex(result.chunks[i])
        /\ UniqueChunkIds(result.chunks)

\* C5: every chunk a call returns has the id made of its document_id and
\* chunk_index, and when the documents of the call have pairwise distinct ids
\* no two chunks of the returned list share an id.
C5_ChunkIds ==
    (call.kind = "call" /\ result.kind = "return") =>
        /\ \A i \in DOMAIN result.chunks : IdFromIndex(result.chunks[i])
        /\ DistinctIds(call.documents) => UniqueChunkIds(result.chunks)

\* A call on documents with distinct ids returned several chunks of one
\* document and a chunk of another.
C5_Witness ==
    /\ call.kind = "call"
    /\ result.kind = "return"
    /\ DistinctIds(call.documents)
    /\ \E i \in DOMAIN result.chunks, j \in DOMAIN result.chunks, k \in DOMAIN result.chunks :
          /\ i # j
          /\ result.chunks[i].document_id = result.chunks[j].document_id
          /\ result.chunks[k].document_id # result.chunks[i].document_id

\* C6: the chunks a call returns for a document carry chunk_index 0, 1, ...,
\* n - 1 in list order and chunk_count n, n the number of chunks returned for
\* that document, and as source the value of the document's source enum.
C6_IndexAndCount ==
    (call.kind = "call" /\ result.kind = "return" /\ DistinctIds(call.documents)) =>
        \A d \in DOMAIN call.documents :
            LET own == ChunksOf(result.chunks, call.documents[d].id)
            IN  \A k \in DOMAIN own :
                    /\ Lookup(own[k].metadata, "chunk_index") = PInt(k - 1)
                    /\ Lookup(own[k].metadata, "chunk_count") = PInt(Len(own))
                    /\ Lookup(own[k].metadata, "source") = PStr(call.documents[d].source.value)

\* C7: no chunk a call returns has content that is empty or only whitespace.
C7_NoBlankChunk ==
    (call.kind = "call" /\ result.kind = "return") =>
        \A i \in DOMAIN result.chunks : strip(result.chunks[i].content) # <<>>

\* C8: a call whose debug dump fails still returns the chunks it computed.
C8_DebugDumpFailureNotFatal ==
    (call.kind = "call" /\ ~result.cache_hit /\ call.io.debug = "fails") =>
        result.kind = "return" /\ result.chunks = result.computed

\* C9: a call whose cache write fails logs the failure and returns the chunks
\* it computed.
C9_CacheWriteFailureNotFatal ==
    (call.kind = "call" /\ result.write_failed) =>
        /\ \E j \in DOMAIN result.log : result.log[j].event = "cache_processed_chunks"
        /\ result.kind = "return"
        /\ result.chunks = result.computed

\* A cache file that is no JSON, or JSON that does not give a list of chunk
\* records under "chunks".
Corrupt(file) ==
    \/ file.kind = "garbage"
    \/ LET v == json_load(file.doc)
       IN  \/ v.t # "dict"
           \/ ~HasKey(v.pairs, "chunks")
           \/ Lookup(v.pairs, "chunks").t # "list"
           \/ \E i \in DOMAIN Lookup(v.pairs, "chunks").items :
                 ~ChunkValidates(Lookup(v.pairs, "chunks").items[i])

\* C10: when the cache file under the key of the documents is corrupt, a call
\* without force_reprocess, even one the file system does nothing to, returns,
\* cleans and splits every document, returns the chunks it computed and leaves
\* a sound entry under the key (unless json cannot encode the documents'
\* metadata).
C10_CorruptEntryIsAMiss ==
    \A docs \in {corpus, ReinsertMetadata(corpus)} :
        LET key == CacheKey(docs, processor.chunk_size, processor.chunk_overlap)
            r == process_documents(processor, docs, FALSE, <<>>,
                                   [cache |-> "ok", debug |-> "ok"], files,
                                   CHOOSE t \in Timestamps : TRUE)
        IN  (key \in DOMAIN files /\ Corrupt(files[key])) =>
                /\ r.kind = "return"
                /\ ~r.cache_hit
                /\ r.cleaned = Len(docs)
                /\ r.chunks = r.computed
                /\ \/ ~Corrupt(r.files[key])
                   \/ \E i \in DOMAIN docs : ~JsonSerialisable(PDict(docs[i].metadata))

\* ---------------------------------------------- create_hash on its own

HashLeaves == { PStr(<<"x">>), PInt(1) }

\* Mappings over the keys k1 and k2, every insertion order of each.
FlatDicts ==
    { <<>> }
    \cup { << <<k, v>> >> : k \in {"k1", "k2"}, v \in HashLeaves }
    \cup { << <<"k1", v>>, <<"k2", w>> >> : v \in HashLeaves, w \in HashLeaves }
    \cup { << <<"k2", w>>, <<"k1", v>> >> : v \in HashLeaves, w \in HashLeaves }

\* The values create_hash is applied to: the mappings above, and mappings that
\* hold one of them, directly or inside a list, next to a second key.
HashValues ==
    LET inner == { PDict(d) : d \in FlatDicts }
        nested == inner \cup { PList(<<x>>) : x \in inner }
    IN  inner
        \cup { PDict(<< <<"metadata", x>>, <<"id", PStr(<<"d">>)>> >>) : x \in nested }
        \cup { PDict(<< <<"id", PStr(<<"d">>)>>, <<"metadata", x>> >>) : x \in nested }

InitHash ==
    /\ corpus = <<>>
    /\ processor = NoCall
    /\ files = <<>>
    /\ debug_file = <<>>
    /\ call \in { [kind |-> "create_hash", a |-> a, b |-> b] : a \in HashValues, b \in HashValues }
    /\ result = NoCall

\* create_hash(a) and create_hash(b)
CreateHash ==
    /\ result = NoCall
    /\ result' = [kind |-> "hash", ha |-> create_hash(call.a), hb |-> create_hash(call.b)]
    /\ UNCHANGED <<corpus, processor, files, debug_file, call>>

NextHash == CreateHash

SpecHash == InitHash /\ [][NextHash]_vars

\* C3: two mappings that are equal as mappings, so differ at most in the order
\* their keys (or the keys of mappings nested in them) were inserted, get the
\* same hash.
C3_HashIgnoresKeyOrder ==
    (result.kind = "hash" /\ PyEq(call.a, call.b)) => result.ha = result.hb

\* Two equal mappings were hashed whose nested mappings, inside a list, have
\* their keys in different orders, and whose own keys are in different orders.
C3_Witness ==
    /\ result.kind = "hash"
    /\ PyEq(call.a, call.b)
    /\ call.a.pairs # <<>>
    /\ call.a.pairs[1][1] = "metadata"
    /\ call.b.pairs[1][1] = "id"
    /\ call.a.pairs[1][2].t = "list"
    /\ call.a.pairs[1][2] # call.b.pairs[2][2]

\* ------------------------------------------------------- load_from_cache

\* The JSON documents and the other files a cache directory can hold.
LoadDocs ==
    { json_dumps(v, FALSE) : v \in HashValues }
    \cup { json_dumps(v, FALSE) :
             v \in { PNone, PInt(1), PStr(<<"a">>), PList(<<>>), PList(<<PInt(1), PNone>>) } }

LoadTexts == { <<>>, <<"a", "b">>, <<"1", "2">>, <<"0", "1">>, <<"7">>, <<"{">> }

LoadFiles ==
    { JsonFile(d) : d \in LoadDocs } \cup { TextFile(t) : t \in LoadTexts }
    \cup { GarbageFile, UnreadableFile }

LoadNames == { <<"f", ".json">>, <<"f", ".txt">>, <<"f">> }

InitLoad ==
    /\ corpus = <<>>
    /\ processor = NoCall
    /\ files \in { <<>> } \cup { [n \in {name} |-> file] : name \in LoadNames, file \in LoadFiles }
    /\ debug_file = <<>>
    /\ call \in { [kind |-> "load_from_cache", filename |-> name] : name \in LoadNames }
    /\ result = NoCall

\* load_from_cache(cache_dir, call.filename)
LoadFromCache ==
    /\ result = NoCall
    /\ \E r \in { load_from_cache(files, call.filename) } :
          result' = [kind |-> "loaded", value |-> r.value, raised |-> r.raised, log |-> r.log]
    /\ UNCHANGED <<corpus, processor, files, debug_file, call>>

NextLoad == LoadFromCache

SpecLoad == InitLoad /\ [][NextLoad]_vars

\* An error record about the file is in the log of the call.
LoggedError(log, filename) ==
    \E i \in DOMAIN log : log[i].level = "error" /\ log[i].about = filename

FrameProcessors ==
    { Processor("iter_2", "unused", x[1], x[2]) : x \in { <<1, 0>>, <<2, 1>>, <<12, 1>> } }

OtherVersions == { <<"v", "2">>, <<"1", "_", "v", "1">> }

\* A file of the directory that no process_documents call wrote.
ForeignName == <<"vectorstore">>

InitFrame ==
    /\ corpus \in { <<DocA, DocC>>, <<DocT>> }
    /\ processor = NoCall
    /\ files \in { <<>>, [n \in {ForeignName} |-> TextFile(<<"x">>)] }
    /\ debug_file = <<>>
    /\ call = NoCall
    /\ result = [kind |-> "none", wrote |-> {}]

\* DocumentProcessor(chunk_size, chunk_overlap).process_documents(corpus, ...);
\* result.before is the directory as the call found it, result.wrote the files
\* written by the calls so far, each with the parameters of the call.
ProcessWith(p, force_reprocess, io) ==
    \E r \in {process_documents(p, corpus, force_reprocess, <<>>, io, files, <<"t", "1">>)} :
       /\ processor' = p
       /\ files' = r.files
       /\ debug_file' = IF r.dumped THEN r.chunks ELSE debug_file
       /\ call' = [kind |-> "call", documents |-> corpus,
                   force_reprocess |-> force_reprocess, io |-> io]
       /\ result' = [kind |-> r.kind, before |-> files, written |-> r.written,
                     wrote |-> result.wrote \cup
                               { [file |-> f, chunk_size |-> p.chunk_size,
                                  chunk_overlap |-> p.chunk_overlap] : f \in r.written }]
       /\ UNCHANGED corpus

NextFrame ==
    \E p \in FrameProcessors, force_reprocess \in BOOLEAN, io \in IOOutcomes :
        ProcessWith(p, force_reprocess, io)

SpecFrame == InitFrame /\ [][NextFrame]_vars

\* C12: after any sequence of process_documents calls, a call whose cache key
\* is K creates or overwrites at most the file named K: every other file of
\* the cache directory is still there with the content it had.  Calls that
\* differ in chunk_size or chunk_overlap never wrote the same file, and no file
\* written has the name a build with another cache version would write.
C12_CacheFrame ==
    call.kind = "call" =>
        LET K == CacheKey(call.documents, processor.chunk_size, processor.chunk_overlap)
        IN  /\ \A f \in (DOMAIN result.before \cup DOMAIN files) \ {K} :
                  /\ f \in DOMAIN result.before
                  /\ f \in DOMAIN files
                  /\ files[f] = result.before[f]
            /\ result.written \subseteq {K}
            /\ \A a \in result.wrote, b \in result.wrote :
                  a.file = b.file
                      => (a.chunk_size = b.chunk_size /\ a.chunk_overlap = b.chunk_overlap)
            /\ \A v \in OtherVersions, p \in FrameProcessors, a \in result.wrote :
                  a.file # CacheKeyFor(call.documents, p.chunk_size, p.chunk_overlap, v)

\* A call overwrote its own cache file while the file of a call with another
\* chunk_size and a file no call wrote were in the directory.
C12_Witness ==
    /\ call.kind = "call"
    /\ result.written # {}
    /\ result.written \subseteq DOMAIN result.before
    /\ ForeignName \in DOMAIN files
    /\ \E a \in result.wrote :
          /\ a.file \notin result.written
          /\ a.chunk_size # processor.chunk_size
          /\ a.file \in DOMAIN files

\* --------------------------------------------------------------- the cleaners

MaxTextLen == 3

\* Upper and lower case letters, a digit, whitespace of three kinds, allowed
\* and forbidden punctuation, and characters NFKC or the replace chain rewrite.
CleanAlphabet ==
    {"a", "A", "1", " ", "\n", "U+00A0", "U+FF21", "U+2013", "#", ".", "U+20AC"}

RECURSIVE TextsUpTo(_)
TextsUpTo(n) ==
    IF n = 0 THEN { <<>> }
    ELSE LET shorter == TextsUpTo(n - 1)
         IN  shorter \cup { Append(t, c) : t \in { u \in shorter : Len(u) = n - 1 },
                                           c \in CleanAlphabet }

CleanTexts == TextsUpTo(MaxTextLen)

InitClean ==
    /\ corpus = <<>>
    /\ processor = NoCall
    /\ files = <<>>
    /\ debug_file = <<>>
    /\ call \in { [kind |-> "clean", text |-> t] : t \in CleanTexts }
    /\ result = NoCall

\* clean_text_minimal(text) and clean_text_moderate(text), and each cleaner
\* applied to its own output.
CleanText ==
    /\ result = NoCall
    /\ \E mn \in {clean_text_minimal(call.text)}, md \in {clean_text_moderate(call.text)} :
          result' = [kind |-> "cleaned",
                     minimal |-> mn, minimal_again |-> clean_text_minimal(mn),
                     moderate |-> md, moderate_again |-> clean_text_moderate(md)]
    /\ UNCHANGED <<corpus, processor, files, debug_file, call>>

NextClean == CleanText

SpecClean == InitClean /\ [][NextClean]_vars

\* C13: the minimal cleaner and the unicode-moderate cleaner are idempotent:
\* cleaning a cleaned text gives the cleaned text back.
C13_CleanersIdempotent ==
    result.kind = "cleaned" =>
        /\ result.minimal_again = result.minimal
        /\ result.moderate_again = result.moderate

\* A text both cleaners change (they drop "#", rewrite the no-break space and
\* trim) was cleaned, and cleaned again.
C13_Witness ==
    /\ result.kind = "cleaned"
    /\ call.text = <<"#", "U+00A0", "a">>
    /\ result.minimal = <<"a">>
    /\ result.moderate = <<"a">>
    /\ result.minimal_again = <<"a">>

AsciiUpperLetters == {"A", "B", "C"}

\* The ASCII letters of a text, in order, each as its lowercase letter.
LettersLowered(text) == lower(KeepOnly(LowerLetters \cup AsciiUpperLetters, text))

\* Whether the text a can be read off the text b from left to right.
RECURSIVE IsSubsequence(_, _)
IsSubsequence(a, b) ==
    IF a = <<>> THEN TRUE
    ELSE IF b = <<>> THEN FALSE
    ELSE IF Head(a) = Head(b) THEN IsSubsequence(Tail(a), Tail(b))
    ELSE IsSubsequence(a, Tail(b))

\* C14: the unicode-moderate cleaner lowercases: every ASCII letter of the
\* input, upper or lower case, is in the output as its lowercase letter (the
\* character filter deletes no letter), and the output has no uppercase letter.
C14_ModerateLowercases ==
    result.kind = "cleaned" =>
        /\ IsSubsequence(LettersLowered(call.text), result.moderate)
        /\ Range(result.moderate) \cap AsciiUpperLetters = {}

\* C15: the output of the minimal cleaner holds only lowercase letters a-z,
\* digits, spaces and the punctuation . , ? ! - ; it neither starts nor ends
\* with whitespace and has no two whitespace characters in a row.
C15_MinimalOutputAlphabet ==
    result.kind = "cleaned" =>
        LET out == result.minimal
        IN  /\ Range(out) \subseteq
                   LowerLetters \cup Digits \cup {" ", ".", ",", "?", "!", "-"}
            /\ out # <<>> => (out[1] \notin Whitespace /\ out[Len(out)] \notin Whitespace)
            /\ \A i \in 1..(Len(out) - 1) :
                   ~(out[i] \in Whitespace /\ out[i + 1] \in Whitespace)

\* A text with an uppercase letter, a forbidden character and whitespace at
\* its right end was cleaned to the lowercase letter alone.
C15_Witness ==
    /\ result.kind = "cleaned"
    /\ call.text = <<"A", "U+2013", "\n">>
    /\ result.minimal = <<"a">>

\* ------------------------------------------------- the lexical resources

\* What the try block of the iter_1 constructor meets: every resource found,
\* one of the three NLTK data sets missing (LookupError), another exception.
NltkOutcomes == {"ok", "stopwords_missing", "punkt_missing", "wordnet_missing", "other_error"}

\* The try/except of DocumentProcessor.__init__: both except clauses log an
\* error and leave stop_words empty and lemmatizer None.
InitNltk(outcome) ==
    IF outcome = "ok"
    THEN [raised |-> FALSE, nltk |-> "ok", log |-> NoLog]
    ELSE [raised |-> FALSE, nltk |-> "init_failed",
          log |-> <<LogRec("error", "nltk_init", outcome)>>]

LexicalBatches == { <<DocA, DocC>>, <<DocB, DocE>>, <<DocN, DocB>> }

InitLexical ==
    /\ corpus \in LexicalBatches
    /\ processor = NoCall
    /\ files = <<>>
    /\ debug_file = <<>>
    /\ call = NoCall
    /\ result = NoCall

\* DocumentProcessor(chunk_size, chunk_overlap) of iter_1.
Construct(outcome, x) ==
    /\ processor = NoCall
    /\ \E r \in {InitNltk(outcome)} :
          /\ processor' = IF r.raised THEN NoCall
                          ELSE Processor("iter_1", r.nltk, x.chunk_size, x.chunk_overlap)
          /\ result' = [kind |-> IF r.raised THEN "raise" ELSE "constructed", log |-> r.log]
    /\ call' = [kind |-> "init", outcome |-> outcome]
    /\ UNCHANGED <<corpus, files, debug_file>>

NextLexical ==
    \/ \E outcome \in NltkOutcomes, x \in ChunkParams : Construct(outcome, x)
    \/ /\ processor # NoCall
       /\ \E force_reprocess \in BOOLEAN, io \in IOOutcomes, timestamp \in Timestamps :
             ProcessDocuments(corpus, force_reprocess, PNone, io, timestamp)

SpecLexical == InitLexical /\ [][NextLexical]_vars

\* The text the lexical cleaner has before its NLTK steps: lowercased, only
\* letters, digits and whitespace kept, whitespace collapsed and trimmed.
LexicalMinimal(text) ==
    strip(CollapseWhitespace(KeepOnly(LowerLetters \cup Digits \cup Whitespace, lower(text))))

Dots(n) == [i \in 1..n |-> "."]
Ones(n) == [i \in 1..n |-> IF i % 2 = 1 THEN "1" ELSE " "]

Revenue == <<"R", "e", "v", "e", "n", "u", "e">>
TwelvePercent == <<"1", "2", "%">>
RevenueLine == Revenue \o <<" ">> \o Dots(9) \o <<" ">> \o TwelvePercent
RevenueComplexLine == RevenueLine \o <<" ", "1", "3", "%">>

LeaderLabels == { <<>>, <<"a">>, Revenue }
Leaders ==
    { <<" ">> \o Dots(9) \o <<" ">>, Dots(5), Dots(4), <<" ", " ", " ", " ", " ">>,
      <<" ", ".", " ", ".", " ", ".", " ", ".", " ", ".", " ">> }
LeaderValues ==
    { <<"7">>, TwelvePercent, TwelvePercent \o <<" ", "1", "3", "%">>, <<"x">>,
      <<"$", " ", "1", ",", "5">>, <<"(", "1", ")", "%">>, <<"1", " ", " ", "2">>,
      <<".", "5">>, Ones(23), Ones(25) }

LinePool ==
    { label \o leader \o value :
          label \in LeaderLabels, leader \in Leaders, value \in LeaderValues }
    \cup { <<>>, <<"a", "b">>, <<"a", ".", "b">>, <<"a", " ", ".", ".", ".", ".", ".">> }

\* Lines of each kind, to build texts of several lines from.
SmallPool ==
    { <<"a">> \o Dots(5) \o <<"7">>, <<"a">> \o Dots(5) \o TwelvePercent,
      <<"a">> \o Dots(5) \o <<"x">>, <<"a", "b">>, <<>> }

MaxLines == 3

RECURSIVE LineSeqs(_)
LineSeqs(n) ==
    IF n = 0 THEN { <<>> }
    ELSE LET shorter == LineSeqs(n - 1)
         IN  shorter \cup { Append(ls, l) : ls \in { x \in shorter : Len(x) = n - 1 },
                                            l \in SmallPool }

LayoutTexts == LinePool \cup { JoinLines(ls) : ls \in LineSeqs(MaxLines) }

Policies == {"reformat", "remove", "keep_original"}

InitLayout ==
    /\ corpus = <<>>
    /\ processor = NoCall
    /\ files = <<>>
    /\ debug_file = <<>>
    /\ call \in { [kind |-> "dot_leader", text |-> t, policy |-> pol] :
                    t \in LayoutTexts, pol \in Policies }
    /\ result = NoCall

\* clean_dot_leader_lines(call.text) under the policy of the call
CleanDotLeaderLines ==
    /\ result = NoCall
    /\ \E r \in { clean_dot_leader_lines(call.text, call.policy) } :
          result' = [kind |-> "dot_leader", emitted |-> r.emitted, lines |-> r.lines,
                     text |-> r.text]
    /\ UNCHANGED <<corpus, processor, files, debug_file, call>>

NextLayout == CleanDotLeaderLines

SpecLayout == InitLayout /\ [][NextLayout]_vars

RevenueReformatted == Revenue \o <<" ">> \o TwelvePercent

\* C17 as stated: the dot-leader pass applied to "Revenue ......... 12%" gives
\* "Revenue 12%" under the policy "reformat", no line under "remove" and the
\* line unchanged under "keep_original".
C17_RevenueLineByPolicy ==
    (result.kind = "dot_leader" /\ call.text = RevenueLine) =>
        CASE call.policy = "reformat" -> result.lines = <<RevenueReformatted>>
          [] call.policy = "remove" -> result.lines = <<>>
          [] call.policy = "keep_original" -> result.lines = <<RevenueLine>>

\* C17, amended: "Revenue ......... 12%" gives "Revenue 12%" under each of the
\* three policies, its value being percentage-shaped and short; the policy
\* decides for "Revenue ......... 12% 13%": "Revenue 12% 13%" under
\* "reformat", no line under "remove", the line unchanged under "keep_original".
C17_RevenueLine ==
    result.kind = "dot_leader" =>
        /\ call.text = RevenueLine => result.lines = <<RevenueReformatted>>
        /\ call.text = RevenueComplexLine =>
              CASE call.policy = "reformat" ->
                      result.lines = <<RevenueReformatted \o <<" ", "1", "3", "%">> >>
                [] call.policy = "remove" -> result.lines = <<>>
                [] call.policy = "keep_original" -> result.lines = <<RevenueComplexLine>>

\* The pass ran on "Revenue ......... 12%" under the policy "remove" and
\* emitted "Revenue 12%".
C17_Witness ==
    /\ result.kind = "dot_leader"
    /\ call.text = RevenueLine
    /\ call.policy = "remove"
    /\ result.text = RevenueReformatted

\* C18: a line of dot-leader shape with a non-empty label is dropped when its
\* value is digits only; otherwise rewritten to "label value" when the value is
\* currency- or percentage-shaped and shorter than 25 characters; otherwise
\* the policy decides: rewritten to "label value", dropped, or kept unchanged.
\* A line without the dot-leader shape is emitted unchanged, and the emitted
\* lines are in the order of the input lines.
C18_DotLeaderCascade ==
    result.kind = "dot_leader" =>
        LET lines == SplitLines(call.text)
        IN  /\ DOMAIN result.emitted = DOMAIN lines
            /\ \A i \in DOMAIN lines :
                  LET match == DotLeaderMatch(lines[i])
                      value == match.value_part
                      out == result.emitted[i]
                      rewritten == <<match.label \o <<" ">> \o strip(CollapseWhitespace(value))>>
                  IN  /\ ~match.matched => out = <<lines[i]>>
                      /\ (match.matched /\ match.label # <<>>) =>
                            IF value # <<>> /\ Range(value) \subseteq Digits
                            THEN out = <<>>
                            ELSE IF IsAllocationValue(value) /\ Len(value) < 25
                            THEN out = rewritten
                            ELSE CASE call.policy = "reformat" -> out = rewritten
                                   [] call.policy = "remove" -> out = <<>>
                                   [] call.policy = "keep_original" -> out = <<lines[i]>>
            /\ result.lines = Flatten(result.emitted)
            /\ result.text = JoinLines(result.lines)

\* A text of four lines went through the pass under "keep_original": the line
\* with a digits-only value was dropped, the percentage line rewritten, the
\* line with another value and the plain line kept, in their order.
C18_Witness ==
    /\ result.kind = "dot_leader"
    /\ call.policy = "keep_original"
    /\ SplitLines(call.text) =
          << <<"a">> \o Dots(5) \o <<"7">>, <<"a">> \o Dots(5) \o TwelvePercent,
             <<"a">> \o Dots(5) \o <<"x">> >>
    /\ result.lines = << <<"a", " ">> \o TwelvePercent, <<"a">> \o Dots(5) \o <<"x">> >>

\* ------------------------------------------------------- order of the chunks

\* The number of chunks the document contributes to a computing call.
Contributed(p, doc) == Len(ProcessDocument(p, doc).chunks)

RECURSIVE ContributedBefore(_, _, _)
ContributedBefore(p, documents, i) ==
    IF i <= 1 THEN 0
    ELSE ContributedBefore(p, documents, i - 1) + Contributed(p, documents[i - 1])

\* The segments the splitter emits for the document.
SegmentsOf(p, doc) == split_text(CleanContent(p, doc.content), p.chunk_size, p.chunk_overlap)

ChunkIndexOf(chunk) == Lookup(chunk.metadata, "chunk_index").n

\* C19: in the list a computing process_documents call returns, the chunks of
\* the first document come first, then those of the second, and so on; the
\* chunks of one document are in ascending chunk_index, each holding the segment
\* the splitter emitted at that index.
C19_ChunkOrder ==
    (call.kind = "call" /\ result.kind = "return" /\ ~result.cache_hit) =>
        LET docs == call.documents
            chunks == result.chunks
        IN  /\ Len(chunks) = ContributedBefore(processor, docs, Len(docs) + 1)
            /\ \A i \in DOMAIN docs :
                  LET first == ContributedBefore(processor, docs, i)
                  IN  \A k \in 1..Contributed(processor, docs[i]) :
                          /\ chunks[first + k].document_id = docs[i].id
                          /\ k > 1 => ChunkIndexOf(chunks[first + k - 1])
                                          < ChunkIndexOf(chunks[first + k])
                          /\ chunks[first + k].content =
                                 SegmentsOf(processor, docs[i])[ChunkIndexOf(chunks[first + k]) + 1]

\* A computing call returned two chunks of its first document followed by two
\* chunks of its second document.
C19_Witness ==
    /\ call.kind = "call"
    /\ result.kind = "return"
    /\ ~result.cache_hit
    /\ Len(call.documents) = 2
    /\ Len(result.chunks) = 4
    /\ result.chunks[2].document_id = call.documents[1].id
    /\ result.chunks[3].document_id = call.documents[2].id
    /\ call.documents[1].id # call.documents[2].id

\* C20: in a process_documents run that computes, every input document that
\* contributes no chunk (cleaning or splitting raised, or nothing is left of
\* its content after cleaning) has a log record of the run that names it.
C20_NoSilentDrop ==
    (call.kind = "call" /\ ~result.cache_hit) =>
        \A i \in DOMAIN call.documents :
            ChunksOf(result.computed, call.documents[i].id) = <<>>
                => \E j \in DOMAIN result.log : result.log[j].about = call.documents[i].id

\* ------------------------------------------------------- PdfFolderSource

\* The PDF cache_dir the folder can hold: a.pdf in two states (size, modification
\* time) and b.pdf in one; the folder lists them in one fixed order.
PdfFile(filename, size, modified) ==
    [filename |-> filename, size |-> size, modified |-> modified]

Folders ==
    { <<>>, <<PdfFile("a.pdf", 1, 1)>>, <<PdfFile("a.pdf", 2, 2)>>, <<PdfFile("b.pdf", 1, 1)>>,
      <<PdfFile("a.pdf", 1, 1), PdfFile("b.pdf", 1, 1)>>,
      <<PdfFile("a.pdf", 2, 2), PdfFile("b.pdf", 1, 1)>> }

PdfCacheFile == <<"pdf_files_metadata", ".json">>

\* uuid.uuid4(): ids never drawn before; which ones they are is immaterial, so
\* the draw takes the first ids that no metadata list on disk holds.
Uuids == <<"u1", "u2", "u3", "u4">>

IdsOnDisk(cache_dir) ==
    IF PdfCacheFile \in DOMAIN cache_dir /\ cache_dir[PdfCacheFile].kind = "json"
    THEN LET cached == json_load(cache_dir[PdfCacheFile].doc)
         IN  { Lookup(cached.items[i].pairs, "id").s[1] : i \in DOMAIN cached.items }
    ELSE {}

RECURSIVE FreshUuids(_, _, _)
FreshUuids(n, used, from) ==
    IF n = 0 THEN <<>>
    ELSE IF Uuids[from] \in used THEN FreshUuids(n, used, from + 1)
    ELSE <<Uuids[from]>> \o FreshUuids(n - 1, used, from + 1)

\* _get_file_metadata(): one dict per file, its id a new uuid4 on every call.
get_file_metadata(folder, uuids) ==
    PList([i \in DOMAIN folder |->
              PDict(<< <<"id", PStr(<<uuids[i]>>)>>,
                       <<"filename", PStr(<<folder[i].filename>>)>>,
                       <<"path", PStr(<<"pdfs/", folder[i].filename>>)>>,
                       <<"size", PInt(folder[i].size)>>,
                       <<"modified", PStr(<<"mtime", DigitOf(folder[i].modified)>>)>> >>)])

\* has_changed(): fs tells whether listing the folder raises.
has_changed(folder, cache_dir, uuids, fs) ==
    IF fs # "ok"
    THEN [value |-> TRUE, log |-> <<LogRec("error", "has_changed", PdfCacheFile)>>]
    ELSE LET current_files == get_file_metadata(folder, uuids)
             loaded == load_from_cache(cache_dir, PdfCacheFile)
             cached_files == loaded.value
         IN  IF cached_files = PNone
             THEN [value |-> TRUE,
                   log |-> loaded.log \o <<LogRec("info", "no_cached_metadata", PdfCacheFile)>>]
             ELSE [value |-> create_hash(current_files) # create_hash(cached_files),
                   log |-> loaded.log]

\* load_data(): the metadata list is saved first; the documents are the files
\* of the list, their ids made from the uuids.
load_data(folder, cache_dir, uuids, fs, io) ==
    IF fs # "ok" THEN [documents |-> <<>>, files |-> cache_dir]
    ELSE LET files_metadata == get_file_metadata(folder, uuids)
             saved == save_to_cache(cache_dir, files_metadata, PdfCacheFile, io)
         IN  IF saved.raised THEN [documents |-> <<>>, files |-> saved.files]
             ELSE [documents |-> [i \in DOMAIN folder |-> <<"pdf_", uuids[i]>>],
                   files |-> saved.files]

FsOutcomes == {"ok", "raises"}

\* corpus is the folder; processor records the folder as the last load_data()
\* call found it.
InitPdf ==
    /\ corpus \in Folders
    /\ processor = [kind |-> "never_loaded"]
    /\ files = <<>>
    /\ debug_file = <<>>
    /\ call = NoCall
    /\ result = NoCall

LoadData(fs, io) ==
    \E r \in { load_data(corpus, files, FreshUuids(Len(corpus), IdsOnDisk(files), 1), fs, io) } :
       /\ files' = r.files
       /\ processor' = [kind |-> "loaded", folder |-> corpus]
       /\ call' = [kind |-> "load_data", fs |-> fs, io |-> io]
       /\ result' = [kind |-> "documents", documents |-> r.documents]
       /\ UNCHANGED <<corpus, debug_file>>

HasChanged(fs) ==
    \E r \in { has_changed(corpus, files, FreshUuids(Len(corpus), IdsOnDisk(files), 1), fs) } :
       /\ call' = [kind |-> "has_changed", fs |-> fs]
       /\ result' = [kind |-> "changed", value |-> r.value, log |-> r.log]
       /\ UNCHANGED <<corpus, processor, files, debug_file>>

\* A PDF file is added to the folder, removed from it or modified.
ChangeFolder(folder) ==
    /\ folder # corpus
    /\ corpus' = folder
    /\ call' = NoCall
    /\ result' = NoCall
    /\ UNCHANGED <<processor, files, debug_file>>

NextPdf ==
    \/ \E fs \in FsOutcomes, io \in {"ok", "open_fails", "write_fails"} : LoadData(fs, io)
    \/ \E fs \in FsOutcomes : HasChanged(fs)
    \/ \E folder \in Folders : ChangeFolder(folder)

SpecPdf == InitPdf /\ [][NextPdf]_vars

\* C21: has_changed() returns True when no cached file metadata exists, when
\* the check raises, or when the folder is not as the last load_data() call
\* found it (a file added, removed or modified); it returns False when the
\* files of the folder, with their names, paths, sizes and modification times,
\* are the same as at the last load_data() call.
C21_HasChanged ==
    call.kind = "has_changed" =>
        LET same == processor.kind = "loaded" /\ processor.folder = corpus
            noMetadata == load_from_cache(files, PdfCacheFile).value = PNone
        IN  /\ (call.fs # "ok" \/ noMetadata \/ ~same) => result.value = TRUE
            /\ (call.fs = "ok" /\ ~noMetadata /\ same) => result.value = FALSE

\* ------------------------------------------------------------ segment sizes

MaxSplitLen == 3

\* "Hello World. This is a test."
HelloText ==
    <<"H", "e", "l", "l", "o", " ", "W", "o", "r", "l", "d", ".", " ",
      "T", "h", "i", "s", " ", "i", "s", " ", "a", " ", "t", "e", "s", "t", ".">>

HelloDoc == Document(<<"d", "o", "c", "1">>, HelloText, <<>>, WEB)

\* The texts handed to the splitter: words, spaces and sentence ends.
SplitTexts == UNION { [1..n -> {"a", " ", "."}] : n \in 0..MaxSplitLen }

SplitParams ==
    { x \in [chunk_size : 1..3, chunk_overlap : 0..2] : x.chunk_overlap < x.chunk_size }

InitSplit ==
    /\ corpus = <<HelloDoc>>
    /\ processor = Processor("iter_2", "unused", 15, 5)
    /\ files = <<>>
    /\ debug_file = <<>>
    /\ call = NoCall
    /\ result = NoCall

\* text_splitter.split_text(text) of a splitter built with the parameters x.
SplitText(text, x) ==
    /\ call' = [kind |-> "split", text |-> text, chunk_size |-> x.chunk_size,
                chunk_overlap |-> x.chunk_overlap]
    /\ result' = [kind |-> "split",
                  segments |-> split_text(text, x.chunk_size, x.chunk_overlap)]
    /\ UNCHANGED <<corpus, processor, files, debug_file>>

NextSplit ==
    \/ \E text \in SplitTexts, x \in SplitParams : SplitText(text, x)
    \/ \E force_reprocess \in BOOLEAN, io \in IOOutcomes :
          ProcessDocuments(corpus, force_reprocess, PNone, io, <<"t", "1">>)

SpecSplit == InitSplit /\ [][NextSplit]_vars

ForceCorpora == { <<DocA, DocC>>, <<DocN, DocB, DocE>>, <<DocT>> }

\* datetime.now().isoformat() of an earlier and of a later call.
ForceTimestamps == { <<"t", "1">>, <<"t", "2">> }

InitForce ==
    /\ corpus \in ForceCorpora
    /\ processor \in { Processor("iter_2", "unused", 2, 1), Processor("iter_3", "unused", 1, 0) }
    /\ files = <<>>
    /\ debug_file = <<>>
    /\ call = NoCall
    /\ result = NoCall

\* processor.process_documents(corpus, force_reprocess); result.before is the
\* cache directory as the call found it.
ForceProcess(force_reprocess, io, timestamp) ==
    \E r \in {process_documents(processor, corpus, force_reprocess, <<>>, io, files,
                                timestamp)} :
       /\ files' = r.files
       /\ debug_file' = IF r.dumped THEN r.chunks ELSE debug_file
       /\ call' = [kind |-> "call", documents |-> corpus,
                   force_reprocess |-> force_reprocess, io |-> io,
                   timestamp |-> timestamp]
       /\ result' = [kind |-> r.kind, before |-> files, chunks |-> r.chunks,
                     cache_hit |-> r.cache_hit, looked_up |-> r.looked_up,
                     written |-> r.written, write_failed |-> r.write_failed,
                     computed |-> r.computed, cleaned |-> r.cleaned, split |-> r.split,
                     documents |-> r.documents]
       /\ UNCHANGED <<corpus, processor>>

NextForce ==
    \E force_reprocess \in BOOLEAN, io \in IOOutcomes, timestamp \in ForceTimestamps :
        ForceProcess(force_reprocess, io, timestamp)

SpecForce == InitForce /\ [][NextForce]_vars

\* The directory holds, under the name, an entry a call without
\* force_reprocess would be served from.
ValidEntry(cache_dir, name) ==
    LET loaded == load_from_cache(cache_dir, name).value
    IN  Truthy(loaded) /\ CachedChunks(loaded).ok

\* The cache file the last call had to write: its own chunks, its own time.
NewEntry ==
    JsonFile(json_dumps(CacheData(processor, call.documents, result.computed, <<>>,
                                  call.timestamp), FALSE))

\* The last call, made with force_reprocess, did not look at the cache and
\* ran the cleaner on every document and the splitter on every document whose
\* cleaning did not raise.
ForcedRecomputes ==
    /\ result.looked_up = {}
    /\ ~result.cache_hit
    /\ result.cleaned = Len(call.documents)
    /\ result.split =
          Cardinality({ i \in DOMAIN call.documents : call.documents[i].content # NoneContent })

C24_KeyAndDocumentsFrame ==
    (call.kind = "call" /\ ~result.cache_hit) =>
        LET key == CacheKey(call.documents, processor.chunk_size, processor.chunk_overlap)
        IN  /\ result.looked_up \subseteq {key}
            /\ result.written \subseteq {key}
            /\ ~call.force_reprocess => result.looked_up = {key}
            /\ call.io.cache # "open_fails" => result.written = {key}
            /\ DOMAIN files \subseteq DOMAIN result.before \cup {key}
            /\ result.documents = call.documents

\* A call without force_reprocess missed the cache, built chunks whose
\* metadata extends the metadata of their document, and wrote the file it had
\* looked up.
C24_Witness ==
    /\ call.kind = "call"
    /\ ~call.force_reprocess
    /\ ~result.cache_hit
    /\ result.looked_up # {}
    /\ result.looked_up = result.written
    /\ result.written \subseteq DOMAIN files
    /\ call.documents = <<DocA, DocC>>
    /\ Len(result.computed) > 0
    /\ HasKey(result.computed[1].metadata, "k1")
    /\ HasKey(result.computed[1].metadata, "chunk_index")
    /\ ~HasKey(result.documents[1].metadata, "chunk_index")

\* ------------------------------------------------ iter_4: the pass pipeline

PageOne == <<"p", "a", "g", "e", " ", "1">>
TocLine == <<"a">> \o Dots(5) \o <<"7">>
AllocationLine == <<"a">> \o Dots(5) \o TwelvePercent

\* Only a page footer; only a table-of-contents line; a footer, a blank line
\* and an allocation line; a table-of-contents line and a character the
\* moderate cleaner deletes.
DocFooter == Document(<<"f1">>, PageOne, <<>>, PDF)
DocToc == Document(<<"f2">>, TocLine, <<>>, PDF)
DocReport ==
    Document(<<"f3">>, PageOne \o <<"\n", "\n">> \o AllocationLine,
             << <<"k1", PStr(<<"x">>)>> >>, PDF)
DocTocSymbol == Document(<<"f4">>, TocLine \o <<"\n", "#">>, <<>>, WEB)

PatternBatches ==
    { <<DocFooter, DocB>>, <<DocToc, DocE, DocReport>>, <<DocN, DocTocSymbol, DocA>>,
      <<DocReport, DocFooter>> }

PatternProcessors ==
    { Processor("iter_4", "unused", 2, 1), Processor("iter_4", "unused", 12, 1) }

InitPatterns ==
    /\ corpus \in PatternBatches
    /\ processor \in PatternProcessors
    /\ files = <<>>
    /\ debug_file = <<>>
    /\ call = NoCall
    /\ result = NoCall

\* processor.process_documents(corpus, force_reprocess) of iter_4
ProcessPatterns(force_reprocess, io) ==
    \E r \in {process_documents(processor, corpus, force_reprocess, <<>>, io, files,
                                <<"t", "1">>)} :
       /\ files' = r.files
       /\ debug_file' = IF r.dumped THEN r.chunks ELSE debug_file
       /\ call' = [kind |-> "call", documents |-> corpus,
                   force_reprocess |-> force_reprocess, io |-> io]
       /\ result' = [kind |-> r.kind, chunks |-> r.chunks, log |-> r.log,
                     cache_hit |-> r.cache_hit, computed |-> r.computed,
                     passes |-> r.passes]
       /\ UNCHANGED <<corpus, processor>>

NextPatterns ==
    \E force_reprocess \in BOOLEAN, io \in IOOutcomes : ProcessPatterns(force_reprocess, io)

SpecPatterns == InitPatterns /\ [][NextPatterns]_vars

PassOrder == <<"remove_specific_lines", "clean_dot_leader_lines", "clean_text_moderate", "split">>

\* The warning the loop logs for the document whose content was empty after
\* its k-th cleaning pass.
EmptyWarning(k, id) ==
    LogRec("warning",
           CASE k = 1 -> "empty_after_specific_lines"
             [] k = 2 -> "empty_after_dot_leaders"
             [] k = 3 -> "empty_after_minimal_cleaning",
           id)

\* C25: the pattern-based processor runs on each document the passes
\* footer/identifier-line removal, dot-leader handling, unicode-moderate
\* cleaning and splitting in that order, each on the output of the one
\* before.  A document whose content is empty or whitespace only after one of
\* the three cleaning passes gets no later pass, yields no chunk and has a
\* warning logged for it; the documents after it are processed all the same.
C25_PassPipeline ==
    (call.kind = "call" /\ ~result.cache_hit) =>
        /\ Len(result.passes) = Len(call.documents)
        /\ \A i \in DOMAIN call.documents :
              LET doc == call.documents[i]
                  runs == result.passes[i]
                  mine == ChunksOf(result.computed, doc.id)
              IN  doc.content # NoneContent =>
                     /\ Len(runs) \in 1..4
                     /\ \A k \in DOMAIN runs :
                           /\ runs[k].pass = PassOrder[k]
                           /\ runs[k].in = IF k = 1 THEN doc.content ELSE runs[k - 1].out
                           /\ (k < 4 /\ strip(runs[k].out) = <<>>) =>
                                  /\ Len(runs) = k
                                  /\ mine = <<>>
                                  /\ \E j \in DOMAIN result.log :
                                         result.log[j] = EmptyWarning(k, doc.id)
                           /\ (k < 4 /\ strip(runs[k].out) # <<>>) => Len(runs) > k
                     /\ Len(runs) = 4 => Len(mine) = Len(runs[4].out)
        /\ \A i \in DOMAIN call.documents :
              /\ call.documents[i] = DocFooter => Len(result.passes[i]) = 1
              /\ call.documents[i] = DocToc => Len(result.passes[i]) = 2
              /\ call.documents[i] = DocE => Len(result.passes[i]) = 3
              /\ call.documents[i] = DocTocSymbol => Len(result.passes[i]) = 3
              /\ call.documents[i] = DocReport =>
                     /\ Len(result.passes[i]) = 4
                     /\ result.passes[i][1].out = <<"\n">> \o AllocationLine
                     /\ result.passes[i][2].out = <<"\n", "a", " ">> \o TwelvePercent

\* A table-of-contents document stopped after the dot-leader pass, a document
\* of one forbidden character after the moderate cleaner, and the report
\* after them went through all four passes and yielded chunks.
C25_Witness ==
    /\ call.kind = "call"
    /\ ~result.cache_hit
    /\ call.documents = <<DocToc, DocE, DocReport>>
    /\ Len(result.passes[1]) = 2
    /\ Len(result.passes[2]) = 3
    /\ Len(result.passes[3]) = 4
    /\ ChunksOf(result.computed, DocToc.id) = <<>>
    /\ ChunksOf(result.computed, DocReport.id) # <<>>
    /\ Len(result.log) >= 2

\* ------------------------------------- the iterations on one cache directory

\* The DocumentProcessor of each iteration, built with the same splitter
\* parameters; each sets cache_dir = CACHE_DIR / "processed".
SharedProcessors ==
    { Processor("iter_1", "ok", 2, 1), Processor("iter_2", "unused", 2, 1),
      Processor("iter_3", "unused", 2, 1), Processor("iter_4", "unused", 2, 1) }

InitShared ==
    /\ corpus \in { <<DocA, DocC>>, <<DocReport>>, <<DocB>> }
    /\ processor = NoCall
    /\ files = <<>>
    /\ debug_file = <<>>
    /\ call = NoCall
    /\ result = NoCall

\* DocumentProcessor(...).process_documents(corpus, force_reprocess) of the
\* iteration of p
ProcessShared(p, force_reprocess, io) ==
    \E r \in {process_documents(p, corpus, force_reprocess, <<>>, io, files, <<"t", "1">>)} :
       /\ processor' = p
       /\ files' = r.files
       /\ debug_file' = IF r.dumped THEN r.chunks ELSE debug_file
       /\ call' = [kind |-> "call", documents |-> corpus,
                   force_reprocess |-> force_reprocess, io |-> io]
       /\ result' = [kind |-> r.kind, chunks |-> r.chunks, cache_hit |-> r.cache_hit]
       /\ UNCHANGED corpus

NextShared ==
    \E p \in SharedProcessors, force_reprocess \in BOOLEAN, io \in IOOutcomes :
        ProcessShared(p, force_reprocess, io)

SpecShared == InitShared /\ [][NextShared]_vars

\* C26: the chunk list a call returns from a cache hit is the list the
\* processor that made the call computes by cleaning and splitting the
\* documents itself, whichever iterations wrote to the cache directory before.
C26_CacheHitEqualsRecompute ==
    (call.kind = "call" /\ result.cache_hit) =>
        ChunksEq(result.chunks, ProcessAll(processor, call.documents).chunks)

\* ------------------------------------------------- the cache store round trip

\* The values stored: mappings, sequences and texts.
StoreValues ==
    HashValues
    \cup { PList(<<>>), PList(<<PInt(1), PNone>>), PList(<<PStr(<<"a">>)>>), PDict(<<>>),
           PDict(<< <<"k1", PObj(<<"2", "0", "2", "5">>)>> >>) }
    \cup { PStr(t) : t \in { <<>>, <<"a", "b">>, <<"1", "2">>, <<"{">> } }

InitStore ==
    /\ corpus = <<>>
    /\ processor = NoCall
    /\ files = <<>>
    /\ debug_file = <<>>
    /\ call \in { [kind |-> "store", value |-> v, filename |-> name, io |-> io] :
                    v \in StoreValues, name \in LoadNames,
                    io \in {"ok", "open_fails", "write_fails"} }
    /\ result = NoCall

\* save_to_cache(call.value, cache_dir, call.filename), and when it returns,
\* load_from_cache(cache_dir, call.filename) right after it.
SaveThenLoad ==
    /\ result = NoCall
    /\ \E saved \in { save_to_cache(files, call.value, call.filename, call.io) } :
          /\ files' = saved.files
          /\ result' = IF saved.raised THEN [kind |-> "save_raised"]
                       ELSE [kind |-> "round_trip",
                             value |-> load_from_cache(saved.files, call.filename).value]
    /\ UNCHANGED <<corpus, processor, debug_file, call>>

NextStore == SaveThenLoad

SpecStore == InitStore /\ [][NextStore]_vars

\* C27: load_from_cache(dir, f) called right after save_to_cache(v, dir, f)
\* has returned gives a value equal to v, for every mapping, sequence or text
\* v and every file name f.
C27_StoreRoundTrip ==
    result.kind = "round_trip" => PyEq(result.value, call.value)

\* ------------------------------------------- what create_hash tells apart

\* Document dumps, and lists of them, with the given values as the one
\* metadata entry and as the source.
DumpsOver(leaves, sources) ==
    LET dumps == { PDict(<< <<"id", PStr(<<"d">>)>>,
                            <<"metadata", PDict(<< <<"k1", v>> >>)>>,
                            <<"source", src>> >>) : v \in leaves, src \in sources }
    IN  dumps \cup { PList(<<x>>) : x \in dumps }

TextLeaves == { PStr(<<"1">>), PStr(<<"N", "o", "n", "e">>), PStr(<<"x">>) }

CanonValues ==
    DumpsOver(TextLeaves \cup { PInt(1), PNone }, { WEB, PStr(<<"w", "e", "b">>) })

InitCanon ==
    /\ corpus = <<>>
    /\ processor = NoCall
    /\ files = <<>>
    /\ debug_file = <<>>
    /\ call \in { [kind |-> "create_hash", a |-> a, b |-> b] :
                    a \in CanonValues, b \in CanonValues }
    /\ result = NoCall

\* create_hash(call.a) and create_hash(call.b)
HashBoth ==
    /\ result = NoCall
    /\ result' = [kind |-> "hashed", a |-> create_hash(call.a), b |-> create_hash(call.b)]
    /\ UNCHANGED <<corpus, processor, files, debug_file, call>>

NextCanon == HashBoth

SpecCanon == InitCanon /\ [][NextCanon]_vars

\* C28: two structures that are not equal, be it only in the type of one
\* leaf, are serialized to different strings by create_hash and so get
\* different digests.
C28_SerializationInjective ==
    (result.kind = "hashed" /\ ~PyEq(call.a, call.b)) => result.a # result.b

\* ------------------------------------- the lexical cleaner's fallback paths

InitDegrade ==
    /\ corpus = <<>>
    /\ processor = NoCall
    /\ files = <<>>
    /\ debug_file = <<>>
    /\ call \in { [kind |-> "clean_text", text |-> t] : t \in CleanTexts }
    /\ result = NoCall

\* clean_text(call.text) of a processor whose resources failed to initialize,
\* and of one whose tokenizer or lemmatizer raises during the call.
CleanDegraded ==
    /\ result = NoCall
    /\ result' = [kind |-> "degraded",
                  init_failed |-> clean_text("init_failed", call.text),
                  raised |-> clean_text("tokenize_raises", call.text)]
    /\ UNCHANGED <<corpus, processor, files, debug_file, call>>

NextDegrade == CleanDegraded

SpecDegrade == InitDegrade /\ [][NextDegrade]_vars

\* C29: the lexical cleaner returns the same text on both of its fallback
\* paths, the initially cleaned text: lowercased, characters outside a-z, 0-9
\* and whitespace removed, whitespace collapsed and trimmed.
C29_FallbacksAgree ==
    result.kind = "degraded" =>
        /\ result.init_failed = LexicalMinimal(call.text)
        /\ result.raised = LexicalMinimal(call.text)

\* -------------------------------------------------------------- RagPipeline

\* RagPipeline.__init__: vector_store and qa_chain start as None.
RagPipeline(force_refresh) ==
    [force_refresh |-> force_refresh, vector_store |-> "None", qa_chain |-> "None"]

\* The `for source in self.data_sources` loop over has_changed(), which stops
\* at the first source that reports a change; answers[i] is what source i
\* would answer.  How many sources were asked and whether one said yes.
RECURSIVE AskSources(_, _)
AskSources(answers, i) ==
    IF i > Len(answers) THEN [asked |-> 0, changed |-> FALSE]
    ELSE IF answers[i] THEN [asked |-> 1, changed |-> TRUE]
    ELSE LET rest == AskSources(answers, i + 1)
         IN  [asked |-> 1 + rest.asked, changed |-> rest.changed]

\* VectorStoreManager.load_vector_store(): the store when the persist
\* directory is not empty and Chroma opens it; None otherwise (the except
\* logs and returns None).
load_vector_store(persisted, io) ==
    IF persisted /\ io = "ok" THEN "Chroma" ELSE "None"

\* _load_data_from_sources(), process_documents() and
\* create_or_update_vector_store(): one load_data() per source, one
\* process_documents call; a failure of the vector store is raised again.
Rebuild(pipeline, sources, io) ==
    [raised |-> io = "raises",
     vector_store |-> IF io = "raises" THEN pipeline.vector_store ELSE "Chroma",
     persisted_after |-> io # "raises",
     load_data |-> sources, process_documents |-> 1]

\* RagPipeline.initialize(): answers are the has_changed() answers of the
\* data sources, persisted whether the persist directory holds a store, io
\* what opening and what writing the vector store does.
initialize(pipeline, answers, persisted, io) ==
    LET asked == IF pipeline.force_refresh THEN [asked |-> 0, changed |-> FALSE]
                 ELSE AskSources(answers, 1)
        need_reload == pipeline.force_refresh \/ asked.changed
        rebuilt == Rebuild(pipeline, Len(answers), io.create)
        loaded == load_vector_store(persisted, io.load)
        Finish(vector_store, raised, persistedAfter, loads, processes, opened) ==
            [kind |-> IF raised THEN "raise" ELSE "return",
             pipeline |-> [pipeline EXCEPT
                              !.vector_store = vector_store,
                              !.qa_chain = IF raised THEN pipeline.qa_chain
                                           ELSE "qa_chain"],
             persisted |-> persistedAfter,
             has_changed |-> asked.asked, load_data |-> loads,
             process_documents |-> processes, load_vector_store |-> opened]
    IN  IF need_reload \/ pipeline.vector_store = "None"
        THEN Finish(rebuilt.vector_store, rebuilt.raised, persisted \/ rebuilt.persisted_after,
                    rebuilt.load_data, rebuilt.process_documents, 0)
        ELSE IF loaded = "None"
        THEN Finish(IF rebuilt.raised THEN "None" ELSE rebuilt.vector_store, rebuilt.raised,
                    persisted \/ rebuilt.persisted_after,
                    rebuilt.load_data, rebuilt.process_documents, 1)
        ELSE Finish(loaded, FALSE, persisted, 0, 0, 1)

MaxSources == 2

\* What the data sources answer to has_changed() during one initialize().
SourceAnswers == UNION { [1..n -> BOOLEAN] : n \in 0..MaxSources }

StoreOutcomes == [load : {"ok", "fails"}, create : {"ok", "raises"}]

\* corpus: has_changed() answers of the configured sources; processor: the
\* pipeline object; files: whether the persist directory holds a store.
InitPipeline ==
    /\ corpus \in SourceAnswers
    /\ processor \in { RagPipeline(f) : f \in BOOLEAN }
    /\ files \in BOOLEAN
    /\ debug_file = <<>>
    /\ call = NoCall
    /\ result = NoCall

\* pipeline.initialize()
Initialize(io) ==
    \E r \in { initialize(processor, corpus, files, io) } :
       /\ processor' = r.pipeline
       /\ files' = r.persisted
       /\ call' = [kind |-> "initialize", force_refresh |-> processor.force_refresh,
                   answers |-> corpus, persisted |-> files, io |-> io,
                   first |-> processor.vector_store = "None"]
       /\ result' = [kind |-> r.kind, has_changed |-> r.has_changed,
                     load_data |-> r.load_data,
                     process_documents |-> r.process_documents,
                     load_vector_store |-> r.load_vector_store]
       /\ UNCHANGED <<corpus, debug_file>>

\* The data sources change, or stop changing, between two calls.
SourcesChange(answers) ==
    /\ Len(answers) = Len(corpus)
    /\ answers # corpus
    /\ corpus' = answers
    /\ call' = NoCall
    /\ result' = NoCall
    /\ UNCHANGED <<processor, files, debug_file>>

\* A new RagPipeline is constructed over the same persist directory.
NewPipeline(force_refresh) ==
    /\ processor # RagPipeline(force_refresh)
    /\ processor' = RagPipeline(force_refresh)
    /\ call' = NoCall
    /\ result' = NoCall
    /\ UNCHANGED <<corpus, files, debug_file>>

NextPipeline ==
    \/ \E io \in StoreOutcomes : Initialize(io)
    \/ \E answers \in SourceAnswers : SourcesChange(answers)
    \/ \E force_refresh \in BOOLEAN : NewPipeline(force_refresh)

SpecPipeline == InitPipeline /\ [][NextPipeline]_vars

\* C30: an initialize() with force_refresh off, no data source reporting a
\* change and a persisted vector store that opens loads that store and calls
\* neither load_data() nor process_documents(), be it the first initialize()
\* of a new pipeline or a later one; after it vector_store and qa_chain are
\* set.
C30_LoadsExistingStore ==
    (/\ call.kind = "initialize"
     /\ ~call.force_refresh
     /\ \A i \in DOMAIN call.answers : ~call.answers[i]
     /\ call.persisted
     /\ call.io.load = "ok") =>
        /\ result.kind = "return"
        /\ result.load_vector_store = 1
        /\ result.load_data = 0
        /\ result.process_documents = 0
        /\ processor.vector_store # "None"
        /\ processor.qa_chain # "None"

====
